---- MODULE Spec2Model ----
(***************************************************************************)
(* Run lifecycle of the Slingpunk combat core: the frame loop, the wave    *)
(* scheduler, the modifier draft, manual pause, GameOver and reset.        *)
(*                                                                         *)
(* Units: time and comboHeat are in hundredths (0.2 s = 20, heat 1 = 100); *)
(* multipliers and percentages are in thousandths (1.25 = 1250).           *)
(* Positions are not modelled: which adversary breaches, which projectile  *)
(* hits or leaves the field in a tick is an input of the tick.  Rendering, *)
(* particles, toasts, focus and aftertouch steering are not part of this  *)
(* model.  The wave generator, the spawn schedule, one adversary, the      *)
(* difficulty tuning, the combo meter, the special charge, chain           *)
(* lightning, the projectiles, the stacking rules, the time reference of   *)
(* the loop, the lane mapping, the collision pass of a frame and the       *)
(* launcher are modelled as components of their own, each with its own     *)
(* variable and specification.                                             *)
(***************************************************************************)
EXTENDS Integers, Sequences, FiniteSets, TLC

VARIABLES
  running, paused, drafting, pauseLocked,       \* Game flags
  pauseInputCooldown, dragging,                 \* Game input state
  lives, score, comboHeat, comboTimer,          \* Game progression
  orbs, deadOrbs, enemies, deadEnemies,         \* Game.orbs / Game.enemies
  completedWaves, availableMajorModifiers,
  modifiers, playerModifierCounts,
  waveIndex, spawns,                            \* WaveManager
  draftActive, draftOptions,                    \* PowerDraftOverlay
  draftStage,                                   \* await position in beginModifierDraft
  microtask,                                    \* promise reaction queued in this task
  resetTimers,                                  \* pending GameOver timeouts
  op, tickTrace, waveLog,                       \* history
  gen,                                          \* the blueprint pickWave returned
  sched,                                        \* WaveManager.elapsed and one ActiveSpawn
  foe,                                          \* one Enemy, its last call and its state before it
  tune,                                         \* the tuning of a wave and a group scaled by it
  combo,                                        \* history: the last kill and the ticks since
  nova,                                         \* Game.novaCharge and the adversaries in the field
  storm,                                        \* chain lightning: projectiles, adversaries and who is in range
  shot,                                         \* Game.orbs, ORB_ID and the modifiers the projectiles read
  stack,                                        \* a ModifierState on its own: the stacking effects applied to it
  clock,                                        \* the time reference of the loop, with the times of the last pause
  arena,                                        \* Game.width and the last lane laneToWorld mapped
  clash,                                        \* one frame of projectiles against adversaries, with the loop position of handleCollisions
  hand                                          \* Game.pointer, Game.launchCooldown and the pointers on the canvas

vars == << running, paused, drafting, pauseLocked, pauseInputCooldown,
           dragging, lives, score, comboHeat, comboTimer,
           orbs, deadOrbs, enemies, deadEnemies, completedWaves,
           availableMajorModifiers, modifiers, playerModifierCounts,
           waveIndex, spawns, draftActive, draftOptions, draftStage,
           microtask, resetTimers, op, tickTrace, waveLog, gen, sched, foe, tune, combo, nova, storm, shot, stack, clock, arena, clash, hand >>

gameVars == << running, paused, drafting, pauseLocked, pauseInputCooldown,
               dragging, lives, score, comboHeat, comboTimer,
               orbs, deadOrbs, enemies, deadEnemies, completedWaves,
               availableMajorModifiers, modifiers, playerModifierCounts,
               waveIndex, spawns, draftActive, draftOptions, draftStage,
               microtask, resetTimers, op, tickTrace, waveLog >>

(* the components checked on their own, apart from the run *)
unitVars == << gen, sched, foe, tune, combo, nova, storm, shot, stack, clock, arena, clash, hand >>

----------------------------------------------------------------------------
(* Bounds of the model *)

MaxWaves == 2
MaxGroups == 1
MaxCount == 2
MaxOrbs == 1
MaxTimers == 1
EnemyMaxHp == 1
TickDt == 200
MaxGenWaves == 4
MaxSchedCount == 3
MaxElapsed == 400
MaxTuningWave == 200
MaxHeat == 13
MaxScore == 2500
MaxQuiet == 300
MaxKillHp == 8
MaxNovaFoes == 2
MaxNovaDrafts == 1

(* Program constants *)

maxLives == 3
PauseCooldown == 20
ComboGrace == 200
WaveBonus == 500
MajorEvery == 3
DraftSlots == 3
novaChargeMax == 100
novaChargePerKill == 7

RECURSIVE SumTo(_, _)
SumTo(f, n) == IF n = 0 THEN 0 ELSE f[n] + SumTo(f, n - 1)

Min(a, b) == IF a < b THEN a ELSE b
Max(a, b) == IF a > b THEN a ELSE b

----------------------------------------------------------------------------
(* Modifier catalogue *)

(* the catalogues, in array order *)
MAJOR_MODIFIERS ==
  << "bulwarkCore", "cryoCoating", "comboDrive", "repulsorBurst", "seekerFletching",
     "volatileCore", "fractalSplinters", "stormLattice", "triVolley" >>

UPGRADE_MODIFIERS ==
  << "damageBoost", "comboHeatDamageBoost", "bounceDamageBoost", "bossDamageBoost",
     "wallHitDamageBoost", "restoreHeart", "seekerHomingBoost" >>

Range(seq) == { seq[i] : i \in 1..Len(seq) }

MajorIds == Range(MAJOR_MODIFIERS)
UpgradeIds == Range(UPGRADE_MODIFIERS)
ALL_DRAFT_MODIFIERS == MajorIds \cup UpgradeIds

Rarity(id) ==
  CASE id \in {"bulwarkCore", "cryoCoating", "comboDrive"} -> "common"
    [] id \in {"repulsorBurst", "seekerFletching", "volatileCore"} -> "uncommon"
    [] id \in {"fractalSplinters", "stormLattice", "triVolley"} -> "rare"
    [] id \in {"damageBoost", "comboHeatDamageBoost", "bounceDamageBoost",
               "restoreHeart"} -> "common"
    [] OTHER -> "uncommon"

createInitialModifiers ==
  [ orbSizeMultiplier |-> 1000,
    slowEffect |-> << >>,
    comboDamagePerTier |-> 0,
    knockbackForce |-> 0,
    homingStrength |-> 0,
    explosion |-> << >>,
    splitOnImpact |-> FALSE,
    chainLightning |-> << >>,
    tripleLaunch |-> FALSE,
    damageMultiplier |-> 1000,
    comboHeatDamagePercent |-> 0,
    bounceDamagePercent |-> 0,
    bossDamageMultiplier |-> 1000,
    wallHitDamageBonusPercent |-> 0,
    lastPicked |-> "none" ]

ensureSlow(m, duration, factor) ==
  IF m.slowEffect = << >>
  THEN [m EXCEPT !.slowEffect = << [duration |-> duration, factor |-> factor] >>]
  ELSE [m EXCEPT !.slowEffect =
          << [duration |-> Max(m.slowEffect[1].duration, duration),
              factor |-> Min(m.slowEffect[1].factor, factor)] >>]

ensureExplosion(m, radius, damage) ==
  IF m.explosion = << >>
  THEN [m EXCEPT !.explosion = << [radius |-> radius, damage |-> damage] >>]
  ELSE [m EXCEPT !.explosion =
          << [radius |-> Max(m.explosion[1].radius, radius),
              damage |-> Max(m.explosion[1].damage, damage)] >>]

(* ensureChain overwriting the effect already there *)
ensureChain_Overwrite(m, range, damage, interval) ==
  [m EXCEPT !.chainLightning =
     << [range |-> range, damage |-> damage, interval |-> interval,
         cooldown |-> 0] >>]

ensureChain(m, range, damage, interval) ==
  IF m.chainLightning = << >>
  THEN [m EXCEPT !.chainLightning =
          << [range |-> range, damage |-> damage, interval |-> interval,
              cooldown |-> 0] >>]
  ELSE [m EXCEPT !.chainLightning =
          << [range |-> Max(m.chainLightning[1].range, range),
              damage |-> m.chainLightning[1].damage + damage,
              interval |-> Min(m.chainLightning[1].interval, interval),
              cooldown |-> m.chainLightning[1].cooldown] >>]

(* DraftModifier.apply(state), by modifier id *)
ModifierApply(id, m) ==
  CASE id = "bulwarkCore" -> [m EXCEPT !.orbSizeMultiplier = (@ * 125) \div 100]
    [] id = "cryoCoating" -> ensureSlow(m, 140, 450)
    [] id = "comboDrive" -> [m EXCEPT !.comboDamagePerTier = @ + 500]
    [] id = "repulsorBurst" -> [m EXCEPT !.knockbackForce = Max(@, 320)]
    [] id = "seekerFletching" -> [m EXCEPT !.homingStrength = @ + 22000]
    [] id = "volatileCore" -> ensureExplosion(m, 140, 1200)
    [] id = "fractalSplinters" -> [m EXCEPT !.splitOnImpact = TRUE]
    [] id = "stormLattice" -> ensureChain(m, 220, 500, 18)
    [] id = "triVolley" -> [m EXCEPT !.tripleLaunch = TRUE]
    [] id = "damageBoost" -> [m EXCEPT !.damageMultiplier = @ + 50]
    [] id = "comboHeatDamageBoost" -> [m EXCEPT !.comboHeatDamagePercent = @ + 4]
    [] id = "bounceDamageBoost" -> [m EXCEPT !.bounceDamagePercent = @ + 50]
    [] id = "bossDamageBoost" -> [m EXCEPT !.bossDamageMultiplier = @ + 100]
    [] id = "wallHitDamageBoost" -> [m EXCEPT !.wallHitDamageBonusPercent = @ + 150]
    [] id = "seekerHomingBoost" ->
         IF m.homingStrength > 0
         THEN [m EXCEPT !.homingStrength = (@ * 115) \div 100]
         ELSE m
    [] OTHER -> m

(* DraftModifier.available(state, context); entries without a predicate
   are always available *)
ModifierAvailable(id, m, l) ==
  CASE id = "restoreHeart" -> l < maxLives
    [] id = "seekerHomingBoost" -> m.homingStrength > 0
    [] OTHER -> TRUE

----------------------------------------------------------------------------
(* The program state as one record, so that a handler is a function from
   state (and inputs) to state *)

State ==
  [ running |-> running, paused |-> paused, drafting |-> drafting,
    pauseLocked |-> pauseLocked, pauseInputCooldown |-> pauseInputCooldown,
    dragging |-> dragging,
    lives |-> lives, score |-> score, comboHeat |-> comboHeat,
    comboTimer |-> comboTimer, orbs |-> orbs, deadOrbs |-> deadOrbs,
    enemies |-> enemies, deadEnemies |-> deadEnemies,
    completedWaves |-> completedWaves,
    availableMajorModifiers |-> availableMajorModifiers,
    modifiers |-> modifiers, playerModifierCounts |-> playerModifierCounts,
    waveIndex |-> waveIndex, spawns |-> spawns,
    draftActive |-> draftActive, draftOptions |-> draftOptions,
    draftStage |-> draftStage, microtask |-> microtask,
    resetTimers |-> resetTimers, tickTrace |-> tickTrace,
    waveLog |-> waveLog ]

CommitGame(s, name) ==
  /\ running' = s.running /\ paused' = s.paused /\ drafting' = s.drafting
  /\ pauseLocked' = s.pauseLocked
  /\ pauseInputCooldown' = s.pauseInputCooldown
  /\ dragging' = s.dragging
  /\ lives' = s.lives /\ score' = s.score /\ comboHeat' = s.comboHeat
  /\ comboTimer' = s.comboTimer /\ orbs' = s.orbs /\ deadOrbs' = s.deadOrbs
  /\ enemies' = s.enemies /\ deadEnemies' = s.deadEnemies
  /\ completedWaves' = s.completedWaves
  /\ availableMajorModifiers' = s.availableMajorModifiers
  /\ modifiers' = s.modifiers
  /\ playerModifierCounts' = s.playerModifierCounts
  /\ waveIndex' = s.waveIndex /\ spawns' = s.spawns
  /\ draftActive' = s.draftActive /\ draftOptions' = s.draftOptions
  /\ draftStage' = s.draftStage /\ microtask' = s.microtask
  /\ resetTimers' = s.resetTimers /\ tickTrace' = s.tickTrace
  /\ waveLog' = s.waveLog
  /\ op' = name

(* a task of the run: the components checked on their own stay idle *)
Commit(s, name) == CommitGame(s, name) /\ UNCHANGED unitVars

NoPicks == [id \in ALL_DRAFT_MODIFIERS |-> 0]

(* the game as constructed *)
NewGame ==
  [ running |-> FALSE, paused |-> FALSE, drafting |-> FALSE,
    pauseLocked |-> FALSE, pauseInputCooldown |-> 0, dragging |-> FALSE,
    lives |-> maxLives, score |-> 0, comboHeat |-> 0, comboTimer |-> 0,
    orbs |-> 0, deadOrbs |-> 0, enemies |-> 0, deadEnemies |-> 0,
    completedWaves |-> 0, availableMajorModifiers |-> MajorIds,
    modifiers |-> createInitialModifiers, playerModifierCounts |-> NoPicks,
    waveIndex |-> 0, spawns |-> << >>,
    draftActive |-> FALSE, draftOptions |-> {}, draftStage |-> "none",
    microtask |-> "none", resetTimers |-> 0, tickTrace |-> << >>,
    waveLog |-> [reports |-> 0, clean |-> TRUE, lateSpawn |-> FALSE] ]

(* the variables hold the state s, left by the task name *)
Assign(s, name) ==
  /\ running = s.running /\ paused = s.paused /\ drafting = s.drafting
  /\ pauseLocked = s.pauseLocked
  /\ pauseInputCooldown = s.pauseInputCooldown
  /\ dragging = s.dragging
  /\ lives = s.lives /\ score = s.score /\ comboHeat = s.comboHeat
  /\ comboTimer = s.comboTimer /\ orbs = s.orbs /\ deadOrbs = s.deadOrbs
  /\ enemies = s.enemies /\ deadEnemies = s.deadEnemies
  /\ completedWaves = s.completedWaves
  /\ availableMajorModifiers = s.availableMajorModifiers
  /\ modifiers = s.modifiers
  /\ playerModifierCounts = s.playerModifierCounts
  /\ waveIndex = s.waveIndex /\ spawns = s.spawns
  /\ draftActive = s.draftActive /\ draftOptions = s.draftOptions
  /\ draftStage = s.draftStage /\ microtask = s.microtask
  /\ resetTimers = s.resetTimers /\ tickTrace = s.tickTrace
  /\ waveLog = s.waveLog
  /\ op = name

----------------------------------------------------------------------------
(* PowerDraftOverlay *)

(* present(): throws while a draft is on screen, else shows the options *)
PresentThrows(s) == s.draftActive

present(s, options) ==
  [s EXCEPT !.draftActive = TRUE, !.draftOptions = options]

(* finish(option): the click on a card; resolves the pending promise *)
finish(s) ==
  IF ~s.draftActive THEN s
  ELSE [s EXCEPT !.draftActive = FALSE, !.draftOptions = {}]

(* cancel(): rejects the pending promise with DraftCancelledError; the
   rejection is handled in a microtask of the calling task *)
cancel(s) ==
  IF ~s.draftActive THEN s
  ELSE [s EXCEPT !.draftActive = FALSE, !.draftOptions = {},
                 !.microtask = "draftRejected"]

----------------------------------------------------------------------------
(* Game: the modifier draft *)

(* the values Math.random() takes in the model, in thousandths *)
RandomValues == {0, 950}

Rolls == [1..DraftSlots -> RandomValues]
NoRolls == [i \in 1..DraftSlots |-> 0]

rollRarity(roll) ==
  IF roll < 600 THEN "common" ELSE IF roll < 900 THEN "uncommon" ELSE "rare"

(* Math.floor(Math.random() * n), as a 1-based index *)
PickIndex(roll, n) == (roll * n) \div 1000 + 1

Remove(seq, k) == [i \in 1..(Len(seq) - 1) |-> IF i < k THEN seq[i] ELSE seq[i + 1]]

fallback(desired) ==
  CASE desired = "common" -> << "common", "uncommon", "rare" >>
    [] desired = "uncommon" -> << "uncommon", "rare", "common" >>
    [] OTHER -> << "rare", "uncommon", "common" >>

Bucket(pool, r) == SelectSeq(pool, LAMBDA id : Rarity(id) = r)

(* the candidates of one slot for a rolled rarity: the first non-empty
   bucket in fallback order, else the whole pool *)
SlotCandidates(pool, desired) ==
  LET f == fallback(desired) IN
  IF Bucket(pool, f[1]) # << >> THEN Bucket(pool, f[1])
  ELSE IF Bucket(pool, f[2]) # << >> THEN Bucket(pool, f[2])
  ELSE IF Bucket(pool, f[3]) # << >> THEN Bucket(pool, f[3])
  ELSE pool

(* the selection loop of pickMajorOptions from slot i on *)
RECURSIVE MajorPicks(_, _, _, _)
MajorPicks(pool, rarity, pick, i) ==
  IF i > DraftSlots \/ pool = << >> THEN {}
  ELSE LET candidates == SlotCandidates(pool, rollRarity(rarity[i]))
           p == candidates[PickIndex(pick[i], Len(candidates))]
       IN {p} \cup MajorPicks(SelectSeq(pool, LAMBDA id : id # p),
                              rarity, pick, i + 1)

(* pickMajorOptions(); rarity and pick are the random numbers it draws *)
pickMajorOptions(available, rarity, pick) ==
  IF available = {} THEN {}
  ELSE IF Cardinality(available) <= DraftSlots THEN available
  ELSE MajorPicks(SelectSeq(MAJOR_MODIFIERS, LAMBDA id : id \in available),
                  rarity, pick, 1)

(* the selection loop that leaves its pick in the pool *)
RECURSIVE UpgradePicks_NoSplice(_, _, _)
UpgradePicks_NoSplice(pool, pick, i) ==
  IF i > DraftSlots \/ pool = << >> THEN {}
  ELSE LET k == PickIndex(pick[i], Len(pool))
       IN {pool[k]} \cup UpgradePicks_NoSplice(pool, pick, i + 1)

(* the selection loop of pickUpgradeOptions from slot i on *)
RECURSIVE UpgradePicks(_, _, _)
UpgradePicks(pool, pick, i) ==
  IF i > DraftSlots \/ pool = << >> THEN {}
  ELSE LET k == PickIndex(pick[i], Len(pool))
       IN {pool[k]} \cup UpgradePicks(Remove(pool, k), pick, i + 1)

(* pickUpgradeOptions(); pick holds the random numbers it draws *)
pickUpgradeOptions(m, l, pick) ==
  LET available == SelectSeq(UPGRADE_MODIFIERS,
                             LAMBDA id : ModifierAvailable(id, m, l)) IN
  IF Len(available) <= DraftSlots THEN Range(available)
  ELSE UpgradePicks(available, pick, 1)

(* applyModifier that records no pick *)
applyModifier_NoCount(s, id) ==
  IF id = "restoreHeart"
  THEN IF s.lives < maxLives
       THEN [s EXCEPT !.lives = Min(maxLives, s.lives + 1),
                      !.modifiers.lastPicked = id]
       ELSE s
  ELSE LET m1 == [ModifierApply(id, s.modifiers) EXCEPT !.lastPicked = id]
           m2 == IF m1.chainLightning = << >> THEN m1
                 ELSE [m1 EXCEPT !.chainLightning[1].cooldown = 0]
       IN [s EXCEPT !.modifiers = m2]

applyModifier(s, id) ==
  IF id = "restoreHeart"
  THEN IF s.lives < maxLives
       THEN [s EXCEPT !.lives = Min(maxLives, s.lives + 1),
                      !.modifiers.lastPicked = id]
       ELSE s
  ELSE LET m1 == [ModifierApply(id, s.modifiers) EXCEPT !.lastPicked = id]
           m2 == IF m1.chainLightning = << >> THEN m1
                 ELSE [m1 EXCEPT !.chainLightning[1].cooldown = 0]
       IN [s EXCEPT !.modifiers = m2,
                    !.playerModifierCounts[id] = @ + 1]

(* the finally block of beginModifierDraft *)
DraftFinally(s) ==
  [s EXCEPT !.drafting = FALSE, !.pauseLocked = FALSE, !.paused = FALSE,
            !.pauseInputCooldown = Max(s.pauseInputCooldown, PauseCooldown),
            !.draftStage = "none"]

(* await this.draft.present(...): a throw of present() is no
   DraftCancelledError, so it leaves through the finally block *)
AwaitPresent(s, options, stage) ==
  IF PresentThrows(s) THEN DraftFinally(s)
  ELSE [present(s, options) EXCEPT !.draftStage = stage]

(* the test of the major offer without the every-third-wave condition *)
shouldOfferMajor_AnyWave(s) == s.availableMajorModifiers # {}

shouldOfferMajor(s) ==
  s.availableMajorModifiers # {} /\ s.completedWaves % MajorEvery = 0

(* beginModifierDraft ending after the upgrade choice *)
MajorStep_Skipped(s, rnd) == DraftFinally(s)

(* beginModifierDraft from the major offer on; rnd holds the random
   numbers pickMajorOptions() draws *)
MajorStep(s, rnd) ==
  IF shouldOfferMajor(s)
  THEN LET majorOptions ==
             pickMajorOptions(s.availableMajorModifiers, rnd.rarity, rnd.pick)
       IN IF majorOptions # {} THEN AwaitPresent(s, majorOptions, "major")
          ELSE DraftFinally(s)
  ELSE DraftFinally(s)

(* beginModifierDraft without the test of the drafting flag *)
beginModifierDraft_NoReentryGuard(s, pick, rnd) ==
  IF s.lives <= 0 THEN s
  ELSE LET s1 == [s EXCEPT !.drafting = TRUE, !.pauseLocked = TRUE,
                           !.paused = TRUE,
                           !.tickTrace = Append(@, "draftBegin")]
           upgradeOptions == pickUpgradeOptions(s1.modifiers, s1.lives, pick)
       IN IF upgradeOptions # {} THEN AwaitPresent(s1, upgradeOptions, "upgrade")
          ELSE MajorStep(s1, rnd)

(* beginModifierDraft up to its first await; pick and rnd hold the random
   numbers the option pickers draw *)
beginModifierDraft(s, pick, rnd) ==
  IF s.drafting \/ s.lives <= 0 THEN s
  ELSE LET s1 == [s EXCEPT !.drafting = TRUE, !.pauseLocked = TRUE,
                           !.paused = TRUE,
                           !.tickTrace = Append(@, "draftBegin")]
           upgradeOptions == pickUpgradeOptions(s1.modifiers, s1.lives, pick)
       IN IF upgradeOptions # {} THEN AwaitPresent(s1, upgradeOptions, "upgrade")
          ELSE MajorStep(s1, rnd)

(* the resumed draft without the removal from the major pool *)
ResumeDraft_KeepsPool(s, choice, rnd) ==
  IF s.draftStage = "upgrade"
  THEN MajorStep(applyModifier(s, choice), rnd)
  ELSE DraftFinally(applyModifier(s, choice))

(* beginModifierDraft resumed with the player's choice *)
ResumeDraft(s, choice, rnd) ==
  IF s.draftStage = "upgrade"
  THEN MajorStep(applyModifier(s, choice), rnd)
  ELSE DraftFinally(
         [applyModifier(s, choice) EXCEPT
            !.availableMajorModifiers = @ \ {choice}])

(* the catch and finally blocks run for a rejected draft promise *)
RunMicrotasks(s) ==
  IF s.microtask = "draftRejected"
  THEN [DraftFinally(s) EXCEPT !.microtask = "none"]
  ELSE s

----------------------------------------------------------------------------
(* WaveManager *)

EnemyTypes == {"GloobZigzag"}

(* the scaled spawn groups of a blueprint: type and count of each group *)
Blueprints ==
  UNION { [1..n -> [type : EnemyTypes, count : 1..MaxCount]] : n \in 1..MaxGroups }

(* WaveManager.reset that keeps the wave index *)
WaveManagerReset_KeepsIndex(s) == [s EXCEPT !.spawns = << >>]

WaveManagerReset(s) ==
  [s EXCEPT !.waveIndex = 0, !.spawns = << >>]

(* Game.spawnEnemy: pushes one adversary of the type *)
GameSpawnEnemy(s, type) == [s EXCEPT !.enemies = @ + 1]

(* WaveManager.spawnEnemy: one member of the loaded wave *)
spawnEnemy(s, type) ==
  [GameSpawnEnemy(s, type) EXCEPT
     !.tickTrace = Append(@, "spawn"),
     !.waveLog.lateSpawn = @ \/ s.waveLog.reports > 0]

loadWave(s, bp) ==
  [s EXCEPT !.spawns = [i \in 1..Len(bp) |->
                          [type |-> bp[i].type, count |-> bp[i].count,
                           spawned |-> 0]],
            !.waveLog.reports = 0]

(* the spawn loop from group i on; fire holds the groups whose next spawn
   time has been reached *)
RECURSIVE SpawnDue(_, _, _)
SpawnDue(s, fire, i) ==
  IF i > Len(s.spawns) THEN s
  ELSE IF s.spawns[i].spawned >= s.spawns[i].count THEN SpawnDue(s, fire, i + 1)
  ELSE IF i \in fire
       THEN SpawnDue([spawnEnemy(s, s.spawns[i].type) EXCEPT
                        !.spawns[i].spawned = @ + 1], fire, i + 1)
       ELSE SpawnDue(s, fire, i + 1)

allSpawned(s) ==
  \A i \in 1..Len(s.spawns) : s.spawns[i].spawned >= s.spawns[i].count

(* the completion test of WaveManager.update: Game.enemies is empty *)
WaveDone(s) ==
  allSpawned(s) /\ s.enemies + s.deadEnemies = 0

onWaveComplete(s, pick, rnd) ==
  beginModifierDraft(
    [s EXCEPT !.score = @ + WaveBonus,
              !.completedWaves = @ + 1], pick, rnd)

(* the completion branch with the spawn list left in place *)
CompleteWave_KeepsSpawns(s, pick, rnd) ==
  onWaveComplete(
    [s EXCEPT !.waveIndex = @ + 1,
              !.tickTrace = Append(@, "waveComplete"),
              !.waveLog = [reports |-> s.waveLog.reports + 1,
                           clean |-> s.waveLog.clean /\ allSpawned(s)
                                       /\ s.enemies = 0,
                           lateSpawn |-> s.waveLog.lateSpawn]],
    pick, rnd)

(* the completion branch of WaveManager.update *)
CompleteWave(s, pick, rnd) ==
  onWaveComplete(
    [s EXCEPT !.waveIndex = @ + 1, !.spawns = << >>,
              !.tickTrace = Append(@, "waveComplete"),
              !.waveLog = [reports |-> s.waveLog.reports + 1,
                           clean |-> s.waveLog.clean /\ allSpawned(s)
                                       /\ s.enemies = 0,
                           lateSpawn |-> s.waveLog.lateSpawn]],
    pick, rnd)

LoadIfEmpty(s, bp) == IF Len(s.spawns) = 0 THEN loadWave(s, bp) ELSE s

WaveManagerUpdate(s, w) ==
  LET s1 == [LoadIfEmpty(s, w.bp) EXCEPT !.tickTrace = Append(@, "wave")]
      s2 == SpawnDue(s1, w.fire, 1)
  IN IF WaveDone(s2) THEN CompleteWave(s2, w.pick, w.rnd) ELSE s2

----------------------------------------------------------------------------
(* Game: progression *)

(* round((100 + 15 maxHp) (1 + 0.1 floor(comboHeat / 5))) *)
KillScore(maxHp, heat) ==
  LET tier == heat \div 500
      x == (100 + maxHp * 15) * (10 + tier)
  IN (x + 5) \div 10

(* onEnemyKilled that raises comboHeat before it computes the score *)
onEnemyKilled_HeatFirst(s, maxHp) ==
  [s EXCEPT !.score = @ + KillScore(maxHp, s.comboHeat + 100),
            !.comboHeat = @ + 100,
            !.comboTimer = 0]

onEnemyKilled(s, maxHp) ==
  [s EXCEPT !.score = @ + KillScore(maxHp, s.comboHeat),
            !.comboHeat = @ + 100,
            !.comboTimer = 0]

handleGameOver(s) ==
  [s EXCEPT !.paused = TRUE, !.resetTimers = @ + 1]

onEnemyBreach(s) ==
  LET s1 == [s EXCEPT !.lives = Max(0, s.lives - 1), !.comboHeat = 0]
  IN IF s1.lives <= 0 THEN handleGameOver(s1) ELSE s1

(* reset that keeps the picks of the run *)
reset_KeepsPicks(s) ==
  WaveManagerReset(cancel(
    [s EXCEPT !.score = 0, !.comboHeat = 0, !.comboTimer = 0,
              !.lives = maxLives, !.orbs = 0, !.deadOrbs = 0,
              !.enemies = 0, !.deadEnemies = 0,
              !.pauseInputCooldown = 0,
              !.availableMajorModifiers = MajorIds,
              !.drafting = FALSE, !.pauseLocked = FALSE,
              !.completedWaves = 0]))

reset(s) ==
  WaveManagerReset(cancel(
    [s EXCEPT !.score = 0, !.comboHeat = 0, !.comboTimer = 0,
              !.lives = maxLives, !.orbs = 0, !.deadOrbs = 0,
              !.enemies = 0, !.deadEnemies = 0,
              !.pauseInputCooldown = 0,
              !.availableMajorModifiers = MajorIds,
              !.modifiers = createInitialModifiers,
              !.playerModifierCounts = NoPicks,
              !.drafting = FALSE, !.pauseLocked = FALSE,
              !.completedWaves = 0]))

(* the timeout callback without its paused = false *)
GameOverTimeout_StaysPaused(s) ==
  [reset(s) EXCEPT !.resetTimers = @ - 1]

(* the callback of the GameOver timeout *)
GameOverTimeout(s) ==
  [reset(s) EXCEPT !.paused = FALSE, !.resetTimers = @ - 1]

start(s) ==
  IF s.running THEN s
  ELSE [reset(s) EXCEPT !.running = TRUE, !.paused = FALSE]

dispose(s) ==
  reset([s EXCEPT !.running = FALSE, !.paused = FALSE])

(* togglePause without the test of pauseLocked *)
togglePause_IgnoresLock(s) ==
  IF ~s.running THEN s
  ELSE IF ~s.paused /\ s.pauseInputCooldown > 0 THEN s
  ELSE [s EXCEPT !.paused = ~s.paused,
                 !.pauseInputCooldown = IF ~s.paused THEN PauseCooldown ELSE 0]

togglePause(s) ==
  IF ~s.running THEN s
  ELSE IF s.pauseLocked THEN s
  ELSE IF ~s.paused /\ s.pauseInputCooldown > 0 THEN s
  ELSE [s EXCEPT !.paused = ~s.paused,
                 !.pauseInputCooldown = IF ~s.paused THEN PauseCooldown ELSE 0]

(* the callback registered with pauseOverlay.onResumeRequested *)
onResumeRequested(s) ==
  IF s.paused /\ ~s.pauseLocked THEN togglePause(s) ELSE s

onPointerDown(s) ==
  IF ~s.running \/ s.paused \/ s.drafting THEN s
  ELSE IF ~s.dragging
       THEN [s EXCEPT !.dragging = TRUE]
       ELSE s

launchOrb(s, strong) ==
  IF ~strong \/ s.lives <= 0 THEN s
  ELSE [s EXCEPT !.orbs = @ + (IF s.modifiers.tripleLaunch THEN 3 ELSE 1)]

onPointerUp(s, strong) ==
  IF ~s.running \/ s.paused THEN s
  ELSE IF s.dragging THEN launchOrb([s EXCEPT !.dragging = FALSE], strong)
       ELSE s

----------------------------------------------------------------------------
(* Game.update, phase by phase *)

Cooldowns(s, dt) ==
  [s EXCEPT !.pauseInputCooldown = Max(0, s.pauseInputCooldown - dt)]

(* orb.update for every projectile; oob of them leave the field *)
AdvanceOrbs(s, oob) ==
  [s EXCEPT !.orbs = @ - oob, !.deadOrbs = @ + oob,
            !.tickTrace = @ \o (IF s.orbs > 0 THEN << "orbs", "orbAdvanced" >>
                                ELSE << "orbs" >>)]

RECURSIVE Breaches(_, _)
Breaches(s, n) == IF n = 0 THEN s ELSE Breaches(onEnemyBreach(s), n - 1)

(* enemy.update for every live adversary; b of them cross the safety line *)
AdvanceEnemies(s, b) ==
  Breaches(
    [s EXCEPT !.enemies = @ - b, !.deadEnemies = @ + b,
              !.tickTrace = @ \o (IF s.enemies > 0
                                  THEN << "enemies", "enemyAdvanced" >>
                                  ELSE << "enemies" >>)],
    b)

RECURSIVE Kills(_, _)
Kills(s, n) ==
  IF n = 0 THEN s ELSE Kills(onEnemyKilled(s, EnemyMaxHp), n - 1)

(* handleCollisions: c.hits projectiles hit an adversary, c.kills
   adversaries die of it, c.splits of the projectiles split *)
HandleCollisions(s, c) ==
  LET s1 == [s EXCEPT !.tickTrace =
                @ \o (IF c.hits > 0
                      THEN << "collisions", "hit" >> ELSE << "collisions" >>)]
      s2 == Kills([s1 EXCEPT !.enemies = @ - c.kills,
                             !.deadEnemies = @ + c.kills], c.kills)
  IN [s2 EXCEPT !.orbs = @ + c.splits, !.deadOrbs = @ + c.splits]

(* the chain-lightning cooldown run with a single projectile in the field *)
ChainStep_SingleOrb(s, dt) ==
  IF s.modifiers.chainLightning # << >> /\ s.orbs > 0
  THEN LET cd == s.modifiers.chainLightning[1].cooldown - dt IN
       [s EXCEPT !.modifiers.chainLightning[1].cooldown =
                   IF cd <= 0 THEN s.modifiers.chainLightning[1].interval ELSE cd]
  ELSE s

(* the chain-lightning cooldown of update *)
ChainStep(s, dt) ==
  IF s.modifiers.chainLightning # << >> /\ s.orbs > 1
  THEN LET cd == s.modifiers.chainLightning[1].cooldown - dt IN
       [s EXCEPT !.modifiers.chainLightning[1].cooldown =
                   IF cd <= 0 THEN s.modifiers.chainLightning[1].interval ELSE cd]
  ELSE s

FilterDead(s) ==
  [s EXCEPT !.deadOrbs = 0, !.deadEnemies = 0,
            !.tickTrace = Append(@, "filter")]

(* the combo decay without the grace period *)
ComboDecay_NoGrace(s, dt) ==
  [s EXCEPT !.comboTimer = Min(s.comboTimer + dt, ComboGrace + dt),
            !.comboHeat = IF s.comboHeat > 0
                          THEN Max(0, s.comboHeat - 2 * dt) ELSE @]

(* comboTimer is only ever compared with the grace period, so it is kept
   up to the first value beyond it *)
ComboDecay(s, dt) ==
  LET timer == Min(s.comboTimer + dt, ComboGrace + dt) IN
  [s EXCEPT !.comboTimer = timer,
            !.comboHeat = IF timer > ComboGrace /\ s.comboHeat > 0
                          THEN Max(0, s.comboHeat - 2 * dt) ELSE @]

(* update with the wave check moved behind the filter *)
update_WaveCheckLast(s, dt, w, oob, b, c) ==
  ComboDecay(
    WaveManagerUpdate(
      FilterDead(
        ChainStep(
          HandleCollisions(
            AdvanceEnemies(
              AdvanceOrbs(Cooldowns([s EXCEPT !.tickTrace = << >>], dt), oob),
              b),
            c),
          dt)),
      w),
    dt)

update(s, dt, w, oob, b, c) ==
  ComboDecay(
    FilterDead(
      ChainStep(
        HandleCollisions(
          AdvanceEnemies(
            AdvanceOrbs(
              WaveManagerUpdate(
                Cooldowns([s EXCEPT !.tickTrace = << >>], dt), w),
              oob),
            b),
          c),
        dt)),
    dt)

(* loop without the test of paused *)
loop_IgnoresPause(s, dt, w, oob, b, c) ==
  IF ~s.running THEN s
  ELSE update(s, dt, w, oob, b, c)

(* Game.loop: one animation frame *)
loop(s, dt, w, oob, b, c) ==
  IF ~s.running THEN s
  ELSE IF s.paused THEN s
  ELSE update(s, dt, w, oob, b, c)

----------------------------------------------------------------------------
(* The inputs a tick can receive in a state *)

MajorRandom == [rarity : Rolls, pick : Rolls]
NoRandom == [rarity |-> NoRolls, pick |-> NoRolls]

(* the random numbers are drawn only by a tick that starts a draft *)
DraftInputs(s) ==
  IF WaveDone(s) /\ ~s.drafting /\ s.lives > 0 THEN Rolls ELSE { NoRolls }

WaveInputs(s) ==
  UNION { UNION { { [bp |-> bp, fire |-> f, pick |-> d, rnd |-> NoRandom] :
                    d \in DraftInputs(SpawnDue(LoadIfEmpty(s, bp), f, 1)) } :
                  f \in SUBSET { i \in 1..Len(LoadIfEmpty(s, bp).spawns) :
                                  LoadIfEmpty(s, bp).spawns[i].spawned
                                    < LoadIfEmpty(s, bp).spawns[i].count } } :
          bp \in (IF Len(s.spawns) = 0 THEN Blueprints ELSE { << >> }) }

BreachInputs(s) == 0..s.enemies

CollisionInputs(s) ==
  IF s.orbs = 0 \/ s.enemies = 0
  THEN { [hits |-> 0, kills |-> 0, splits |-> 0] }
  ELSE { c \in [hits : 0..s.orbs, kills : 0..s.enemies, splits : 0..s.orbs] :
           /\ (c.kills > 0 => c.hits > 0)
           /\ c.splits <= (IF s.modifiers.splitOnImpact THEN c.hits ELSE 0) }

----------------------------------------------------------------------------
(* Wave generator: pickWave and selectTemplate.  Weights are in
   thousandths.  enemies holds the adversary type of every group and
   origins the template that generated it; hp, count and cadence (in
   thousandths of a second) follow from them, the wave number and the
   random numbers of the call; lanes are left out. *)

(* groupTemplates, in array order; maxPerWave defaults to 1 *)
groupTemplates ==
  << [id |-> "zigzag-stream",     minWave |-> 1,  maxPerWave |-> 2],
     [id |-> "zigzag-volley",     minWave |-> 2,  maxPerWave |-> 1],
     [id |-> "zigzag-rain",       minWave |-> 4,  maxPerWave |-> 1],
     [id |-> "splitter-column",   minWave |-> 2,  maxPerWave |-> 2],
     [id |-> "splitter-parade",   minWave |-> 4,  maxPerWave |-> 1],
     [id |-> "shield-wall",       minWave |-> 3,  maxPerWave |-> 1],
     [id |-> "magnet-harrier",    minWave |-> 3,  maxPerWave |-> 1],
     [id |-> "spore-cluster",     minWave |-> 4,  maxPerWave |-> 1],
     [id |-> "mixed-skirmish",    minWave |-> 5,  maxPerWave |-> 1],
     [id |-> "bulwark-advance",   minWave |-> 10, maxPerWave |-> 1],
     [id |-> "bulwark-escort",    minWave |-> 12, maxPerWave |-> 1],
     [id |-> "warp-ambush",       minWave |-> 13, maxPerWave |-> 1],
     [id |-> "maelstrom-lattice", minWave |-> 16, maxPerWave |-> 1],
     [id |-> "aegis-phalanx",     minWave |-> 20, maxPerWave |-> 1] >>

TemplateIds == { groupTemplates[i].id : i \in DOMAIN groupTemplates }

Template(id) ==
  groupTemplates[CHOOSE i \in DOMAIN groupTemplates : groupTemplates[i].id = id]

(* template.weight(waveNumber) *)
TemplateWeight(id, w) ==
  CASE id = "zigzag-stream"     -> Max(500, 7000 - w * 250)
    [] id = "zigzag-volley"     -> Max(600, 5000 - w * 150)
    [] id = "zigzag-rain"       -> Max(500, 3500 - w * 80)
    [] id = "splitter-column"   -> Max(600, 4500 - w * 100)
    [] id = "splitter-parade"   -> Max(500, 3800 - w * 80)
    [] id = "shield-wall"       -> 1800 + w * 50
    [] id = "magnet-harrier"    -> 2000 + w * 40
    [] id = "spore-cluster"     -> 1600 + w * 30
    [] id = "mixed-skirmish"    -> 2400 + w * 40
    [] id = "bulwark-advance"   -> 1000 + (w - 9) * 80
    [] id = "bulwark-escort"    -> 900 + (w - 11) * 80
    [] id = "warp-ambush"       -> 1100 + (w - 12) * 70
    [] id = "maelstrom-lattice" -> 1000 + (w - 15) * 60
    [] OTHER                    -> 1000 + (w - 19) * 120

(* n groups of one type *)
Groups(n, type) == [i \in 1..n |-> type]

(* template.generate(waveNumber, lanes): the groups it can return, over
   the lanes pickLaneSet can choose; a lane at the edge of the field has
   one neighbour, any other lane two *)
TemplateGenerate(id) ==
  CASE id = "zigzag-stream"     -> { Groups(1, "GloobZigzag") }
    [] id = "zigzag-volley"     -> { Groups(2, "GloobZigzag") }
    [] id = "zigzag-rain"       -> { Groups(3, "GloobZigzag") }
    [] id = "splitter-column"   -> { Groups(1, "SplitterGloob") }
    [] id = "splitter-parade"   -> { Groups(2, "SplitterGloob") }
    [] id = "shield-wall"       -> { Groups(2, "ShieldyGloob") }
    [] id = "magnet-harrier"    ->
         { << "Magnetron" >> \o Groups(n, "GloobZigzag") : n \in 1..2 }
    [] id = "spore-cluster"     -> { Groups(2, "SporePuff") }
    [] id = "mixed-skirmish"    ->
         { << "GloobZigzag", "SplitterGloob", "ShieldyGloob" >> }
    [] id = "bulwark-advance"   -> { Groups(2, "BulwarkGloob") }
    [] id = "bulwark-escort"    ->
         { << "BulwarkGloob" >> \o Groups(n, "WarpStalker") : n \in 1..2 }
    [] id = "warp-ambush"       -> { Groups(2, "WarpStalker") }
    [] id = "maelstrom-lattice" ->
         { << "SporePuff", "Magnetron", "WarpStalker" >> }
    [] OTHER                    ->
         { << "AegisSentinel" >> \o Groups(2, "BulwarkGloob") }

(* what one call of template.generate draws: the bonus member of
   zigzag-stream (Math.random() < 0.35) and the end of randomRange the
   cadences of the call are taken from *)
GenRolls(id) ==
  { [bonus |-> b, sign |-> s] :
      b \in (IF id = "zigzag-stream" THEN 0..1 ELSE { 0 }), s \in { -1, 1 } }

(* one WaveEnemyConfig: cadence = clamp(base + randomRange(-jitter, jitter),
   lo, hi) *)
GroupConfig(type, hp, count, base, jitter, lo, hi, rnd) ==
  [type |-> type, hp |-> hp, count |-> count,
   cadence |-> Max(lo, Min(hi, base + rnd.sign * jitter))]

(* the config template.generate(waveNumber, lanes) builds for a group of
   the type; Math.floor is \div *)
TemplateConfig(id, w, type, rnd) ==
  CASE id = "zigzag-stream" ->
         GroupConfig(type, 3 + (w - 1) \div 2, 4 + (w - 1) \div 3 + rnd.bonus,
                     2800 - w * 50, 200, 1100, 3200, rnd)
    [] id = "zigzag-volley" ->
         GroupConfig(type, 3 + w \div 3, 3 + w \div 4,
                     2400 - w * 40, 150, 1000, 2600, rnd)
    [] id = "zigzag-rain" ->
         GroupConfig(type, 3 + w \div 3, 2 + w \div 5,
                     2100 - w * 30, 120, 900, 2300, rnd)
    [] id = "splitter-column" ->
         GroupConfig(type, 4 + (w - 1) \div 3, 2 + (w - 1) \div 4,
                     5000 - w * 90, 300, 2500, 6200, rnd)
    [] id = "splitter-parade" ->
         GroupConfig(type, 4 + (w - 1) \div 3, 2 + (w - 1) \div 5,
                     4600 - w * 70, 200, 2400, 5400, rnd)
    [] id = "shield-wall" ->
         GroupConfig(type, 6 + (w - 1) \div 4, 1 + (w - 1) \div 6,
                     6200 - w * 100, 300, 3600, 7000, rnd)
    [] id = "magnet-harrier" /\ type = "Magnetron" ->
         GroupConfig(type, 6 + (w - 1) \div 3, Max(1, 1 + (w - 1) \div 7),
                     6400 - w * 100, 200, 3600, 7200, rnd)
    [] id = "magnet-harrier" /\ type # "Magnetron" ->
         GroupConfig(type, 3 + (w - 1) \div 3, 3 + (w - 1) \div 4,
                     2500 - w * 40, 150, 1200, 2800, rnd)
    [] id = "spore-cluster" ->
         GroupConfig(type, 5 + (w - 1) \div 4, 2 + (w - 1) \div 6,
                     5400 - w * 70, 200, 2700, 6200, rnd)
    [] id = "mixed-skirmish" /\ type = "GloobZigzag" ->
         GroupConfig(type, 3 + (w - 1) \div 3, 3 + (w - 1) \div 4,
                     2300 - w * 40, 150, 1100, 2600, rnd)
    [] id = "mixed-skirmish" /\ type = "SplitterGloob" ->
         GroupConfig(type, 5 + (w - 1) \div 3, 2 + (w - 1) \div 5,
                     4600 - w * 70, 250, 2400, 5200, rnd)
    [] id = "mixed-skirmish" /\ type \notin { "GloobZigzag", "SplitterGloob" } ->
         GroupConfig(type, 5 + (w - 1) \div 5, 1 + (w - 1) \div 6,
                     5800 - w * 80, 250, 3000, 6500, rnd)
    [] id = "bulwark-advance" ->
         GroupConfig(type, 9 + (w - 10) \div 2, Max(1, 1 + (w - 10) \div 6),
                     6800 - (w - 10) * 120, 250, 3400, 7200, rnd)
    [] id = "bulwark-escort" /\ type = "BulwarkGloob" ->
         GroupConfig(type, 10 + (w - 12) \div 2, Max(1, 1 + (w - 12) \div 7),
                     6200 - (w - 12) * 100, 200, 3300, 6800, rnd)
    [] id = "bulwark-escort" /\ type # "BulwarkGloob" ->
         GroupConfig(type, 7 + (w - 12) \div 3, 2 + (w - 12) \div 4,
                     3400 - (w - 12) * 60, 150, 1400, 3600, rnd)
    [] id = "warp-ambush" ->
         GroupConfig(type, 7 + (w - 12) \div 3, 2 + (w - 12) \div 4,
                     3200 - (w - 12) * 60, 100, 1300, 3400, rnd)
    [] id = "maelstrom-lattice" /\ type = "SporePuff" ->
         GroupConfig(type, 6 + (w - 16) \div 3, 2 + (w - 16) \div 5,
                     5200 - (w - 16) * 60, 200, 2600, 5600, rnd)
    [] id = "maelstrom-lattice" /\ type = "Magnetron" ->
         GroupConfig(type, 7 + (w - 16) \div 2, Max(1, 1 + (w - 16) \div 6),
                     5600 - (w - 16) * 80, 200, 3200, 6200, rnd)
    [] id = "maelstrom-lattice" /\ type \notin { "SporePuff", "Magnetron" } ->
         GroupConfig(type, 7 + (w - 16) \div 3, 2 + (w - 16) \div 4,
                     3100 - (w - 16) * 50, 150, 1400, 3200, rnd)
    [] id = "aegis-phalanx" /\ type = "AegisSentinel" ->
         GroupConfig(type, 18 + (w - 20) \div 2, Max(1, 1 + (w - 20) \div 12),
                     7800 - (w - 20) * 120, 250, 4600, 8400, rnd)
    [] OTHER ->
         GroupConfig(type, 11 + (w - 20) \div 2, Max(1, 1 + (w - 20) \div 8),
                     6400 - (w - 20) * 100, 200, 3400, 6800, rnd)

NoneUsed == [id \in TemplateIds |-> 0]

UnderCap(id, usedCounts) == usedCounts[id] < Template(id).maxPerWave

(* the three filters of selectTemplate, strictest first *)
StrictFilter(w, usedCounts) ==
  { id \in TemplateIds :
      /\ w >= Template(id).minWave
      /\ UnderCap(id, usedCounts)
      /\ Max(0, TemplateWeight(id, w)) > 0 }

LooserFilter(w, usedCounts) ==
  { id \in TemplateIds :
      w >= Template(id).minWave /\ UnderCap(id, usedCounts) }

UniformFilter(w, usedCounts) ==
  { id \in TemplateIds : UnderCap(id, usedCounts) }

(* selectTemplate(waveNumber, usedCounts): the templates the weighted roll
   can return (every weight in the list is positive), with the filter
   they came from; no template means undefined *)
selectTemplate(w, usedCounts) ==
  IF StrictFilter(w, usedCounts) # {}
  THEN [filter |-> "strict", templates |-> StrictFilter(w, usedCounts)]
  ELSE IF LooserFilter(w, usedCounts) # {}
  THEN [filter |-> "looser", templates |-> LooserFilter(w, usedCounts)]
  ELSE [filter |-> "uniform", templates |-> UniformFilter(w, usedCounts)]

DefaultGroup == << "GloobZigzag" >>

(* { type: 'GloobZigzag', lane: 3, hp: 3, count: 4, cadence: 2.5 } *)
DefaultConfig ==
  [type |-> "GloobZigzag", hp |-> 3, count |-> 4, cadence |-> 2500]

(* pickWave: if (enemies.length) instead of if (!enemies.length) *)
WithDefault_TestNegated(groups) ==
  IF groups # << >> THEN groups \o DefaultGroup ELSE groups

(* pickWave: the default group pushed when the loop produced none *)
WithDefault(groups) ==
  IF groups = << >> THEN DefaultGroup ELSE groups

(* clamp(baseGroupTarget + bonusGroup, 2, 6); bonus is 1 with Math.random() < 0.35 *)
targetGroups(waveNumber, bonus) ==
  Max(2, Min(6, 2 + waveNumber \div 3 + bonus))

(* the blueprints the loop of pickWave can end with from iteration i on *)
RECURSIVE PickLoop(_, _, _)
PickLoop(g, i, target) ==
  IF i >= target THEN { g }
  ELSE LET sel == selectTemplate(g.waveNumber, g.usedCounts) IN
       IF sel.templates = {} THEN { g }
       ELSE UNION { UNION {
              PickLoop([g EXCEPT !.usedCounts[id] = @ + 1,
                                 !.chosenIds = Append(@, id),
                                 !.filters = @ \cup { sel.filter },
                                 !.enemies = @ \o configs,
                                 !.origins = @ \o [k \in DOMAIN configs |-> id]],
                       i + 1, target) :
              configs \in TemplateGenerate(id) } :
            id \in sel.templates }

(* the configs group k of the blueprint can have, over the random numbers
   of the call that generated it *)
GroupConfigs(g, k) ==
  IF g.origins[k] = "default" THEN { DefaultConfig }
  ELSE { TemplateConfig(g.origins[k], g.waveNumber, g.enemies[k], rnd) :
         rnd \in GenRolls(g.origins[k]) }

(* pickWave(index), over the random numbers it draws *)
pickWave(index) ==
  UNION { { [g EXCEPT !.enemies = WithDefault(@),
                      !.origins = IF g.enemies = << >>
                                  THEN << "default" >> ELSE @,
                      !.built = TRUE] :
            g \in PickLoop([waveNumber |-> index + 1,
                            targetGroups |-> targetGroups(index + 1, bonus),
                            usedCounts |-> NoneUsed, chosenIds |-> << >>,
                            filters |-> {}, enemies |-> << >>,
                            origins |-> << >>, built |-> FALSE],
                           0, targetGroups(index + 1, bonus)) } :
          bonus \in 0..1 }

(* no blueprint built yet *)
NoBlueprint ==
  [waveNumber |-> 0, targetGroups |-> 0, usedCounts |-> NoneUsed,
   chosenIds |-> << >>, filters |-> {}, enemies |-> << >>,
   origins |-> << >>, built |-> FALSE]

----------------------------------------------------------------------------
(* WaveManager: the spawn timer of one group.  Times are in hundredths of
   a second; gaps holds the simulated time between consecutive spawns. *)

NoSchedule ==
  [loaded |-> FALSE, elapsed |-> 0, count |-> 0, cadence |-> 0,
   spawned |-> 0, nextTime |-> 0, lastSpawn |-> 0, gaps |-> {}]

(* loadWave for one group: nextTime = elapsed + Math.random() *
   Math.min(2, cadence); elapsed is 0 when a wave is loaded *)
loadSpawn(count, cadence, offset) ==
  [loaded |-> TRUE, elapsed |-> 0, count |-> count, cadence |-> cadence,
   spawned |-> 0, nextTime |-> 0 + offset, lastSpawn |-> 0, gaps |-> {}]

(* WaveManager.update(dt) for the group: elapsed += dt, then at most one
   member is spawned *)
spawnUpdate(g, dt) ==
  LET e == g.elapsed + dt IN
  IF g.spawned >= g.count \/ e < g.nextTime
  THEN [g EXCEPT !.elapsed = e]
  ELSE [g EXCEPT !.elapsed = e,
                 !.spawned = @ + 1,
                 !.nextTime = @ + g.cadence,
                 !.lastSpawn = e,
                 !.gaps = IF g.spawned = 0 THEN @ ELSE @ \cup { e - g.lastSpawn }]

----------------------------------------------------------------------------
(* Enemy: damage, slow and knockback.  hp, shield and damage are in
   tenths, the slow timer in hundredths of a second, the slow factor in
   thousandths. *)

(* new Enemy(...), with the shield its subclass sets *)
Enemy(hp, shield) ==
  [alive |-> TRUE, hp |-> hp, maxHp |-> hp, shield |-> shield,
   slowTimer |-> 0, slowFactor |-> 1000, knockback |-> 0]

(* takeDamage in which a broken shield absorbs the whole hit *)
takeDamage_NoOverflow(e, amount) ==
  IF ~e.alive THEN e
  ELSE IF e.shield > 0
  THEN [e EXCEPT !.shield = Max(0, e.shield - amount)]
  ELSE [e EXCEPT !.hp = @ - amount, !.alive = (e.hp - amount > 0)]

(* Enemy.takeDamage(amount) *)
takeDamage(e, amount) ==
  IF ~e.alive THEN e
  ELSE LET shield == IF e.shield > 0 THEN e.shield - amount ELSE e.shield
           remaining == IF e.shield > 0
                        THEN (IF shield <= 0 THEN 0 - shield ELSE 0)
                        ELSE amount
           e1 == [e EXCEPT !.shield = IF e.shield > 0 /\ shield <= 0
                                      THEN 0 ELSE shield]
       IN IF remaining > 0
          THEN [e1 EXCEPT !.hp = @ - remaining,
                          !.alive = (e1.hp - remaining > 0)]
          ELSE e1

(* applySlow in which the last call wins *)
applySlow_LastWins(e, duration, factor) ==
  [e EXCEPT !.slowTimer = duration, !.slowFactor = Max(100, factor)]

(* Enemy.applySlow(duration, factor) *)
applySlow(e, duration, factor) ==
  [e EXCEPT !.slowTimer = Max(e.slowTimer, duration),
            !.slowFactor = Min(e.slowFactor, Max(100, factor))]

(* Enemy.applyKnockback(force) *)
applyKnockback(e, force) ==
  [e EXCEPT !.knockback = Max(e.knockback, force)]

(* Enemy.update(dt): the decay of knockback and slow; dt * 240 with dt in
   hundredths *)
enemyUpdate(e, dt) ==
  LET e1 == IF e.knockback > 0
            THEN [e EXCEPT !.knockback = Max(0, @ - (dt * 240) \div 100)]
            ELSE e
  IN IF e1.slowTimer > 0
     THEN [e1 EXCEPT !.slowTimer = Max(0, @ - dt),
                     !.slowFactor = IF Max(0, e1.slowTimer - dt) = 0
                                    THEN 1000 ELSE @]
     ELSE e1

(* the pulse of AegisSentinel.behavior on an ally in reach: shield =
   min(shield + 1.5, 6), hp = min(maxHp, hp + 0.4); dead allies are
   passed over *)
aegisPulse(e) ==
  IF ~e.alive THEN e
  ELSE [e EXCEPT !.shield = Min(@ + 15, 60), !.hp = Min(e.maxHp, @ + 4)]

(* BulwarkGloob.behavior as far as the shield goes: shield =
   min(8, shield + dt * 1.6) *)
bulwarkBehavior(e, dt) ==
  [e EXCEPT !.shield = Min(80, @ + (dt * 16) \div 100)]

NoEnemy ==
  [e |-> [Enemy(0, 0) EXCEPT !.alive = FALSE],
   prev |-> [Enemy(0, 0) EXCEPT !.alive = FALSE],
   call |-> << "none" >>,
   kind |-> "none"]

----------------------------------------------------------------------------
(* Enemy tuning: buildEnemyTuning, WaveManager.scaleCount and the hp of
   Game.spawnEnemy.  Multipliers are in ten-thousandths (1.0 = 10000),
   percentages in hundredths. *)

Unit == 10000

(* Math.round(n / d) for n >= 0 *)
Round(n, d) == (2 * n + d) \div (2 * d)

clamp_Identity(value, min, max) == value

clamp(value, min, max) == Max(min, Min(max, value))

(* ENEMY_MODIFIERS, in array order *)
ENEMY_MODIFIERS ==
  << "overclocked", "reinforcedCarapace", "broodSwarm", "rapidIncubation",
     "feralSurge", "ironcladHosts" >>

EnemyModifierIds == Range(ENEMY_MODIFIERS)

(* x *= percent / 100 *)
Times(x, percent) == (x * percent) \div 100

(* EnemyModifierDefinition.apply(scaling) *)
EnemyModifierApply(id, s) ==
  CASE id = "overclocked" ->
         [s EXCEPT !.speedMultiplier = Times(@, 125)]
    [] id = "reinforcedCarapace" ->
         [s EXCEPT !.hpMultiplier = Times(@, 130), !.hpBonus = @ + 1]
    [] id = "broodSwarm" ->
         [s EXCEPT !.countMultiplier = Times(@, 145),
                   !.cadenceMultiplier = Times(@, 90)]
    [] id = "rapidIncubation" ->
         [s EXCEPT !.cadenceMultiplier = Times(@, 70),
                   !.speedMultiplier = Times(@, 112)]
    [] id = "feralSurge" ->
         [s EXCEPT !.hpMultiplier = Times(@, 115),
                   !.speedMultiplier = Times(@, 120)]
    [] OTHER ->
         [s EXCEPT !.hpBonus = @ + 2, !.countMultiplier = Times(@, 115)]

(* the scaling before any mutation *)
BaseScaling(level) ==
  [level |-> level,
   hpMultiplier |-> Unit + level * 700,
   hpBonus |-> 0,
   speedMultiplier |-> Unit + level * 60,
   countMultiplier |-> Unit + level * 500,
   cadenceMultiplier |-> (Unit * 1000) \div (1000 + level * 25)]

NoMutations == [id \in EnemyModifierIds |-> 0]

(* the states of the pick loop after n more picks: the pool is refilled
   when empty and a pick leaves it.  The picks are kept as counts: the
   mutations multiply and add, so their order does not matter. *)
RECURSIVE DrawPicks(_, _)
DrawPicks(states, n) ==
  IF n = 0 THEN states
  ELSE DrawPicks(
         UNION { LET pool == IF p.pool = {} THEN EnemyModifierIds ELSE p.pool
                 IN { [pool |-> pool \ {id},
                       picks |-> [p.picks EXCEPT ![id] = @ + 1]] :
                      id \in pool } :
                 p \in states },
         n - 1)

(* modifier.apply(scaling) for every pick of one mutation, then of the
   next *)
RECURSIVE ApplyPicks(_, _, _)
ApplyPicks(s, picks, k) ==
  IF k > Len(ENEMY_MODIFIERS) THEN s
  ELSE IF picks[ENEMY_MODIFIERS[k]] = 0 THEN ApplyPicks(s, picks, k + 1)
  ELSE ApplyPicks(EnemyModifierApply(ENEMY_MODIFIERS[k], s),
                  [picks EXCEPT ![ENEMY_MODIFIERS[k]] = @ - 1], k)

(* the clamps at the end of buildEnemyTuning *)
ClampScaling(s) ==
  [s EXCEPT !.hpMultiplier = clamp(@, Unit, 5 * Unit),
            !.speedMultiplier = clamp(@, Unit \div 2, 3 * Unit),
            !.countMultiplier = clamp(@, Unit, (7 * Unit) \div 2),
            !.cadenceMultiplier = clamp(@, (35 * Unit) \div 100, Unit),
            !.hpBonus = Max(0, @)]

NoGroup == [scaled |-> FALSE, baseCount |-> 0, count |-> 0,
            spawned |-> FALSE, baseHp |-> 0, hp |-> 0, difficulty |-> 0]

(* buildEnemyTuning(waveNumber), over the random numbers it draws *)
buildEnemyTuning(waveNumber) ==
  LET level == Max(0, waveNumber - 1) IN
  { [built |-> TRUE, waveNumber |-> waveNumber, picks |-> p.picks,
     raw |-> ApplyPicks(BaseScaling(level), p.picks, 1),
     scaling |-> ClampScaling(ApplyPicks(BaseScaling(level), p.picks, 1)),
     group |-> NoGroup] :
    p \in DrawPicks({ [pool |-> EnemyModifierIds, picks |-> NoMutations] },
                    level \div 5) }

(* scaleCount with the scaled count alone *)
scaleCount_NoGuarantee(s, baseCount) ==
  Max(1, Min(Max(baseCount, Round(baseCount * s.countMultiplier, Unit)),
             Max(baseCount, baseCount * 4)))

(* WaveManager.scaleCount(baseCount) *)
scaleCount(s, baseCount) ==
  LET scaled == Round(baseCount * s.countMultiplier, Unit)
      guaranteed == baseCount + s.level \div 4
      cap == Max(baseCount, baseCount * 4)
  IN Max(1, Min(Max(Max(baseCount, scaled), guaranteed), cap))

(* Game.spawnEnemy: the hp of the adversary; difficulty is
   difficulty.enemyHpMultiplier in hundredths *)
spawnHp(s, hp, difficulty) ==
  LET scaledHpValue == hp * s.hpMultiplier + s.hpBonus * Unit
      minimumHp == hp + s.level \div 3
      baseHp == Max(1, Max(Round(scaledHpValue, Unit), minimumHp))
  IN Max(1, Round(baseHp * difficulty, 100))

NoTuning ==
  [built |-> FALSE, waveNumber |-> 0, picks |-> NoMutations,
   raw |-> BaseScaling(0), scaling |-> BaseScaling(0), group |-> NoGroup]

(* no kill yet, no tick yet *)
NoCombo ==
  [quiet |-> 0, dts |-> {}, heatAtKill |-> 0,
   kill |-> [maxHp |-> 0, heat |-> 0, delta |-> 0]]

----------------------------------------------------------------------------
(* Game: the special charge (nova pulse).  foes are the adversaries in the
   field, as Enemy records; the charge is a whole number of points. *)

(* chargeNovaPulse without the clamp *)
chargeNovaPulse_NoClamp(n) == [n EXCEPT !.charge = @ + novaChargePerKill]

(* novaCharge >= novaChargeMax - 0.01, in hundredths *)
isNovaPulseReady(n) == n.charge * 100 >= novaChargeMax * 100 - 1

chargeNovaPulse(n) ==
  [n EXCEPT !.charge = clamp(@ + novaChargePerKill, 0, novaChargeMax)]

activateNovaPulse(n) ==
  [n EXCEPT !.charge = 0,
            !.foes = [i \in DOMAIN n.foes |->
                        IF ~n.foes[i].alive THEN n.foes[i]
                        ELSE applySlow(applyKnockback(n.foes[i], 620), 380, 400)]]

(* tryActivateNovaPulse in the game state s *)
tryActivateNovaPulse(s, n) ==
  IF ~s.running \/ s.paused \/ s.drafting \/ s.lives <= 0 THEN n
  ELSE IF ~isNovaPulseReady(n) THEN n
  ELSE activateNovaPulse(n)

(* the part of Game.reset that concerns the special: enemies = [],
   novaCharge = 0 *)
NoNova == [charge |-> 0, foes |-> << >>]

----------------------------------------------------------------------------
(* Game: the chain-lightning tick.  orbs holds the alive flag of every
   projectile of Game.orbs, foes the adversaries; near holds << i, j, k >>
   when adversary k lies within range of the segment from projectile i to
   projectile j.  hits counts the takeDamage calls of the last frame. *)

AliveOrbs(st) == { i \in DOMAIN st.orbs : st.orbs[i] }

(* the pairs i < j of live projectiles, in the order of the two loops *)
OrbPairs(st) ==
  LET ps == { p \in AliveOrbs(st) \X AliveOrbs(st) : p[1] < p[2] }
      before(p, q) == p[1] < q[1] \/ (p[1] = q[1] /\ p[2] < q[2])
  IN [n \in 1..Cardinality(ps) |->
        CHOOSE p \in ps : Cardinality({ q \in ps : before(q, p) }) = n - 1]

(* the chain damage in tenths: chain.damage is in thousandths *)
ChainDamage(st) == st.cl.damage \div 100

(* the loop over the adversaries without the set of those already hit *)
RECURSIVE ChainEnemies_NoAffected(_, _, _)
ChainEnemies_NoAffected(st, p, k) ==
  IF k > Len(st.foes) THEN st
  ELSE IF ~st.foes[k].alive THEN ChainEnemies_NoAffected(st, p, k + 1)
  ELSE IF << p[1], p[2], k >> \in st.near
       THEN ChainEnemies_NoAffected(
              [st EXCEPT !.foes[k] = takeDamage(@, ChainDamage(st)),
                         !.hits[k] = @ + 1,
                         !.affected = @ \cup { k }], p, k + 1)
       ELSE ChainEnemies_NoAffected(st, p, k + 1)

(* the loop over the adversaries for the pair p of projectiles, from
   adversary k on *)
RECURSIVE ChainEnemies(_, _, _)
ChainEnemies(st, p, k) ==
  IF k > Len(st.foes) THEN st
  ELSE IF ~st.foes[k].alive \/ k \in st.affected THEN ChainEnemies(st, p, k + 1)
  ELSE IF << p[1], p[2], k >> \in st.near
       THEN ChainEnemies(
              [st EXCEPT !.foes[k] = takeDamage(@, ChainDamage(st)),
                         !.hits[k] = @ + 1,
                         !.affected = @ \cup { k }], p, k + 1)
       ELSE ChainEnemies(st, p, k + 1)

RECURSIVE ChainPairs(_, _, _)
ChainPairs(st, pairs, n) ==
  IF n > Len(pairs) THEN st
  ELSE ChainPairs(ChainEnemies(st, pairs[n], 1), pairs, n + 1)

tickChainLightning(st) ==
  IF Cardinality(AliveOrbs(st)) < 2 THEN st
  ELSE ChainPairs([st EXCEPT !.affected = {}], OrbPairs(st), 1)

(* the chain-lightning block of Game.update(dt) *)
chainUpdate(st, dt) ==
  LET s0 == [st EXCEPT !.before = st.foes,
                       !.hits = [k \in DOMAIN st.foes |-> 0],
                       !.fired = FALSE]
  IN IF Cardinality(AliveOrbs(s0)) > 1
     THEN IF s0.cl.cooldown - dt <= 0
          THEN tickChainLightning(
                 [s0 EXCEPT !.cl.cooldown = s0.cl.interval, !.fired = TRUE])
          ELSE [s0 EXCEPT !.cl.cooldown = @ - dt]
     ELSE s0

(* no projectile and no adversary in the field *)
NoStorm ==
  [loaded |-> FALSE, orbs |-> << >>, foes |-> << >>, before |-> << >>,
   near |-> {}, hits |-> << >>, affected |-> {}, fired |-> FALSE,
   cl |-> [range |-> 0, damage |-> 0, interval |-> 0, cooldown |-> 0]]

----------------------------------------------------------------------------
(* Orb and the handlers of Game that act on Game.orbs.  Damage and the
   damage modifiers are in thousandths.  The Orb class declares neither
   bounceCount nor pendingWallDamageBonus: both are undefined until
   Game.emitWallHit writes them, and undefined > 0 is false, so they are
   kept as 0 here.  walls and armed are history: the wall bounces of the
   projectile, and whether it has bounced with the wall-hit bonus active
   since its last collision. *)

(* new Orb(position, velocity, { splitOnImpact }) *)
Orb(id, splitOnImpact) ==
  [id |-> id, alive |-> TRUE, damage |-> 1000, splitOnImpact |-> splitOnImpact,
   bounceCount |-> 0, pendingWallDamageBonus |-> 0,
   walls |-> 0, armed |-> FALSE]

cloneWithVelocity(o, id) == Orb(id, o.splitOnImpact)

(* Game.emitWallHit(position, orb?) *)
emitWallHit(o, m, withOrb) ==
  IF withOrb
  THEN [o EXCEPT !.bounceCount = @ + 1,
                 !.pendingWallDamageBonus =
                    IF m.wallHitDamageBonusPercent > 0
                    THEN m.wallHitDamageBonusPercent ELSE @]
  ELSE o

(* Orb.onWallBounce: game.emitWallHit(this.position), without the orb *)
onWallBounce(o, m) == emitWallHit(o, m, FALSE)

RECURSIVE Bounces(_, _, _)
Bounces(o, m, w) == IF w = 0 THEN o ELSE Bounces(onWallBounce(o, m), m, w - 1)

(* Orb.update: w walls are hit (a side wall, the top, or both), and the
   projectile leaves the field or not *)
orbUpdate(o, m, w, out) ==
  IF ~o.alive THEN o
  ELSE [Bounces(o, m, w) EXCEPT
          !.walls = @ + w,
          !.armed = @ \/ (w > 0 /\ m.wallHitDamageBonusPercent > 0),
          !.alive = ~out]

Scaled(x, f) == (x * f) \div 1000

(* Game.computeOrbDamage(orb, enemy): the damage and the projectile it
   leaves; heat is in hundredths *)
computeOrbDamage(o, m, heat, bossOrElite) ==
  LET d0 == Scaled(o.damage, m.damageMultiplier)
      d1 == IF m.comboHeatDamagePercent > 0
            THEN Scaled(d0, 1000 + (Max(0, heat) * m.comboHeatDamagePercent) \div 100)
            ELSE d0
      d2 == IF m.bounceDamagePercent > 0 /\ o.bounceCount > 0
            THEN Scaled(d1, 1000 + o.bounceCount * m.bounceDamagePercent)
            ELSE d1
      d3 == IF bossOrElite /\ m.bossDamageMultiplier > 1000
            THEN Scaled(d2, m.bossDamageMultiplier) ELSE d2
      d4 == IF o.pendingWallDamageBonus > 0
            THEN Scaled(d3, 1000 + o.pendingWallDamageBonus) ELSE d3
      tier == heat \div 500
  IN [damage |-> d4 + tier * m.comboDamagePerTier,
      orb |-> [o EXCEPT !.pendingWallDamageBonus = 0]]

(* Game.splitOrb(orb), for the projectile at place i of Game.orbs *)
splitOrb(st, i) ==
  [st EXCEPT !.orbs = [@ EXCEPT ![i].alive = FALSE]
                        \o << cloneWithVelocity(st.orbs[i], st.nextId),
                              cloneWithVelocity(st.orbs[i], st.nextId + 1) >>,
             !.nextId = @ + 2,
             !.splits = Append(@, [of |-> st.orbs[i].id,
                                   into |-> { st.nextId, st.nextId + 1 }])]

(* Game.resolveOrbHit(orb, enemy), as far as the projectile goes *)
resolveOrbHit(st, i) ==
  LET o == st.orbs[i]
      hit == computeOrbDamage(o, st.m, 0, FALSE)
      s1 == [st EXCEPT !.orbs[i] =
               [hit.orb EXCEPT !.armed = FALSE]]
  IN IF o.splitOnImpact THEN splitOrb(s1, i) ELSE s1

(* Game.handleCollisions from place i on: the loop over Game.orbs also
   visits the projectiles a split has pushed; hits[i] says whether the
   projectile visited i-th overlaps an adversary *)
RECURSIVE handleOrbCollisions(_, _, _)
handleOrbCollisions(st, hits, i) ==
  IF i > Len(st.orbs) THEN st
  ELSE IF st.orbs[i].alive /\ i \in DOMAIN hits /\ hits[i]
       THEN handleOrbCollisions(resolveOrbHit(st, i), hits, i + 1)
       ELSE handleOrbCollisions(st, hits, i + 1)

(* the frame without the filter of the dead projectiles *)
orbsUpdate_NoFilter(st, moves, hits) ==
  LET s1 == [st EXCEPT !.orbs = [i \in DOMAIN st.orbs |->
                                   orbUpdate(st.orbs[i], st.m, moves[i].walls,
                                             moves[i].out)],
                       !.splits = << >>]
      s2 == handleOrbCollisions(s1, hits, 1)
  IN [s2 EXCEPT !.grown = Len(s2.orbs) - Len(s1.orbs)]

(* Game.update, as far as Game.orbs goes: orb.update for every projectile,
   handleCollisions, and the filter of the dead *)
orbsUpdate(st, moves, hits) ==
  LET s1 == [st EXCEPT !.orbs = [i \in DOMAIN st.orbs |->
                                   orbUpdate(st.orbs[i], st.m, moves[i].walls,
                                             moves[i].out)],
                       !.splits = << >>]
      s2 == handleOrbCollisions(s1, hits, 1)
  IN [s2 EXCEPT !.orbs = SelectSeq(s2.orbs, LAMBDA o : o.alive),
                !.gone = @ \cup { s2.orbs[i].id :
                                    i \in { j \in DOMAIN s2.orbs : ~s2.orbs[j].alive } },
                !.grown = Len(s2.orbs) - Len(s1.orbs)]

(* Game.launchOrb: one projectile, or three with Tri-Volley *)
launchOrbs(st) ==
  LET count == IF st.m.tripleLaunch THEN 3 ELSE 1 IN
  [st EXCEPT !.orbs = @ \o [k \in 1..count |->
                              Orb(st.nextId + k - 1, st.m.splitOnImpact)],
             !.nextId = @ + count]

(* Game.applyModifier, as far as the projectiles go *)
applyToOrbs(st, id) ==
  LET m1 == [ModifierApply(id, st.m) EXCEPT !.lastPicked = id] IN
  [st EXCEPT !.m = m1,
             !.orbs = IF m1.splitOnImpact
                      THEN [i \in DOMAIN st.orbs |->
                              [st.orbs[i] EXCEPT !.splitOnImpact = TRUE]]
                      ELSE @]

(* Game.reset: orbs = [], the modifiers as created *)
NoShot ==
  [orbs |-> << >>, nextId |-> 0, m |-> createInitialModifiers,
   gone |-> {}, splits |-> << >>, grown |-> 0]

(* A ModifierState on its own, for the stacking rules of modifiers.ts:
   m is the state, prev the state before the last application, kind and
   args the last application, n the number of applications *)

NoStack ==
  [ m |-> createInitialModifiers, prev |-> createInitialModifiers,
    kind |-> "none", args |-> << >>, n |-> 0 ]

(* The time reference of Game.loop. now is performance.now(), lastTime the
   field of Game, delta the delta of the last frame, all in frames of
   TickDt; pausedAt and resumedAt are the times at which the simulation
   last stopped and last went on, kind the task that let it go on *)

Rebase(c) == [c EXCEPT !.lastTime = c.now]

start_Time(s, c) == IF s.running THEN c ELSE Rebase(c)

(* togglePause that leaves the time reference alone *)
togglePause_TimeKept(s, c) == c

togglePause_Time(s, c) ==
  IF ~s.running THEN c
  ELSE IF s.pauseLocked THEN c
  ELSE IF ~s.paused /\ s.pauseInputCooldown > 0 THEN c
  ELSE IF ~s.paused THEN c
  ELSE Rebase(c)

(* the finally block of beginModifierDraft; s is the state it leaves *)
DraftFinally_Time(s, c, cancelled) ==
  IF ~cancelled /\ s.running THEN Rebase(c) ELSE c

GameOverTimeout_Time(c) == Rebase(c)

(* Game.loop called with time = now *)
loop_Time(s, c) ==
  IF ~s.running THEN c
  ELSE IF s.paused THEN c
  ELSE [c EXCEPT !.delta = c.now - c.lastTime, !.lastTime = c.now]

NoClock ==
  [ now |-> 0, lastTime |-> 0, delta |-> 0, pausedAt |-> 0, resumedAt |-> 0,
    kind |-> "none" ]

(* Game.laneToWorld. width is in field units, the x returned in
   thousandths of a unit, so that the step of any whole width is exact *)

laneCount == 6
lanePadding == 120

(* laneToWorld counting the lanes from 0 *)
laneToWorld_ZeroBased(width, l) ==
  LET usableWidth == width - lanePadding * 2
      step == (usableWidth * 1000) \div (laneCount - 1)
  IN lanePadding * 1000 + step * l

laneToWorld(width, l) ==
  LET usableWidth == width - lanePadding * 2
      step == (usableWidth * 1000) \div (laneCount - 1)
  IN lanePadding * 1000 + step * (l - 1)

NoField == [ width |-> 720, lane |-> 0, x |-> 0 ]

(* One frame of projectiles against adversaries: the enemy.update loop of
   Game.update, handleCollisions, the chain-lightning tick and the two
   filters.  Positions are kept as what they decide: place is the position
   of a launched projectile, which its clones share (cloneWithVelocity
   copies this.position); near is the set of places whose projectiles
   overlap the adversary; an explosion is centred on the adversary hit and
   reaches that adversary, its children, and with blastAll every other
   one.  hp, shield and damage are in tenths.  i and j are the positions of
   the two for-of loops of handleCollisions, which also visit what is
   pushed to Game.orbs and Game.enemies during the loops.  gen, hits,
   kills and breaches are history. *)

EnemyKinds == { "GloobZigzag", "ShieldyGloob", "SplitterGloob", "Splitterling" }

(* computeOrbDamage with no damage modifier picked: orb.damage = 1 *)
OrbHitDamage == 10
(* scalePlayerDamage(explosion.damage) and scalePlayerDamage(chain.damage)
   on Normal difficulty *)
BlastDamage == 12
ChainHitDamage == 5
(* the hp spawnEnemy gives a Splitterling of hp 1 without enemy scaling *)
SplitterlingHp == 10

ClashOrb(place, splitOnImpact, g) ==
  [alive |-> TRUE, splitOnImpact |-> splitOnImpact, place |-> place,
   gen |-> g, hits |-> 0]

ClashFoe(kind, hp, shield, near, parent) ==
  [kind |-> kind, e |-> Enemy(hp, shield), near |-> near, parent |-> parent,
   kills |-> 0, breaches |-> 0]

(* a hit that leaves the adversary as it was *)
foeTakeDamage_Immune(st, k, amount) == st

(* enemy.takeDamage for the adversary at place k of Game.enemies, with
   onDeath (the children of a SplitterGloob are pushed to Game.enemies) and
   onEnemyKilled *)
foeTakeDamage(st, k, amount) ==
  LET f == st.foes[k]
      e2 == takeDamage(f.e, amount)
      died == e2.hp < f.e.hp /\ e2.hp <= 0
      child == ClashFoe("Splitterling", SplitterlingHp, 0,
                        IF st.childNear THEN f.near ELSE {}, k)
      s1 == [st EXCEPT !.foes[k].e = e2,
                       !.foes[k].kills = IF died THEN @ + 1 ELSE @]
  IN IF died /\ f.kind = "SplitterGloob"
     THEN [s1 EXCEPT !.foes = @ \o << child, child >>]
     ELSE s1

InBlast(st, c, k) == k = c \/ st.foes[k].parent = c \/ st.blastAll

(* Game.triggerExplosion centred on adversary c, from place k of
   Game.enemies on *)
RECURSIVE triggerExplosion(_, _, _)
triggerExplosion(st, c, k) ==
  IF k > Len(st.foes) THEN st
  ELSE IF st.foes[k].e.alive /\ InBlast(st, c, k)
       THEN triggerExplosion(foeTakeDamage(st, k, BlastDamage), c, k + 1)
       ELSE triggerExplosion(st, c, k + 1)

(* Game.splitOrb *)
clashSplitOrb(st, i) ==
  LET o == st.orbs[i]
      clone == ClashOrb(o.place, o.splitOnImpact, o.gen + 1)
  IN [st EXCEPT !.orbs = [@ EXCEPT ![i].alive = FALSE] \o << clone, clone >>]

(* Game.resolveOrbHit(orb i, enemy j) *)
clashResolveOrbHit(st, i, j) ==
  LET s1 == foeTakeDamage([st EXCEPT !.orbs[i].hits = @ + 1], j, OrbHitDamage)
      s2 == IF st.explosion THEN triggerExplosion(s1, j, 1) ELSE s1
  IN IF s2.orbs[i].splitOnImpact THEN clashSplitOrb(s2, i) ELSE s2

(* one turn of the inner loop of Game.handleCollisions *)
handleCollisionsStep(st) ==
  IF st.i > Len(st.orbs) THEN [st EXCEPT !.phase = "collided"]
  ELSE IF ~st.orbs[st.i].alive \/ st.j > Len(st.foes)
  THEN [st EXCEPT !.i = @ + 1, !.j = 1]
  ELSE IF st.foes[st.j].e.alive /\ st.orbs[st.i].place \in st.foes[st.j].near
  THEN LET s1 == clashResolveOrbHit(st, st.i, st.j)
       IN IF ~s1.orbs[st.i].alive
          THEN [s1 EXCEPT !.i = @ + 1, !.j = 1]
          ELSE [s1 EXCEPT !.j = @ + 1]
  ELSE [st EXCEPT !.j = @ + 1]

(* Enemy.update for an adversary that crosses the breach line *)
foeBreach_StaysAlive(f) == [f EXCEPT !.breaches = @ + 1]

foeBreach(f) == [f EXCEPT !.e.alive = FALSE, !.breaches = @ + 1]

(* the enemy.update loop of Game.update; the adversaries of b are beyond
   the breach line *)
clashMove(st, b) ==
  [st EXCEPT !.foes = [k \in DOMAIN st.foes |->
                         IF st.foes[k].e.alive /\ k \in b
                         THEN foeBreach(st.foes[k]) ELSE st.foes[k]],
             !.phase = "moved", !.i = 1, !.j = 1]

(* the loop over Game.enemies of tickChainLightning for one pair of
   projectiles, from place k on *)
RECURSIVE ChainSweep(_, _)
ChainSweep(st, k) ==
  IF k > Len(st.foes) THEN st
  ELSE IF st.foes[k].e.alive /\ k \notin st.affected /\ st.chainNear
       THEN ChainSweep([foeTakeDamage(st, k, ChainHitDamage) EXCEPT
                          !.affected = @ \cup {k}], k + 1)
       ELSE ChainSweep(st, k + 1)

RECURSIVE ChainSweeps(_, _)
ChainSweeps(st, pairs) ==
  IF pairs = 0 THEN st ELSE ChainSweeps(ChainSweep(st, 1), pairs - 1)

(* the chain-lightning block of Game.update with the cooldown run out, and
   the filters of the dead *)
clashFinish(st) ==
  LET n == Cardinality({ i \in DOMAIN st.orbs : st.orbs[i].alive })
      s1 == IF st.chain /\ n > 1
            THEN ChainSweeps([st EXCEPT !.affected = {}], (n * (n - 1)) \div 2)
            ELSE st
  IN [s1 EXCEPT !.phase = "filtered",
                !.left = Cardinality({ i \in DOMAIN s1.orbs : s1.orbs[i].alive })]

NoClash ==
  [ phase |-> "idle", orbs |-> << >>, foes |-> << >>, i |-> 1, j |-> 1,
    explosion |-> FALSE, chain |-> FALSE, blastAll |-> FALSE,
    childNear |-> FALSE, chainNear |-> FALSE, affected |-> {}, left |-> 0 ]

(* The launcher: Game.pointer (dragging, pointerId; 0 is null),
   Game.launchCooldown in hundredths of a second, and down, the pointers
   that are on the canvas.  Aftertouch is left out: its branch of
   onPointerDown never changes Game.pointer. *)

launchCooldownTime == 35

(* Game.onPointerDown for the pointer id *)
pointerDown(s, h, id) ==
  IF ~s.running \/ s.paused \/ s.drafting THEN h
  ELSE IF ~h.dragging /\ h.launchCooldown <= 0
       THEN [h EXCEPT !.dragging = TRUE, !.pointerId = id]
       ELSE h

(* Game.launchOrb, as far as the cooldown goes *)
launchCooldownAfter(s, h, strong) ==
  IF ~strong \/ h.launchCooldown > 0 \/ s.lives <= 0 THEN h.launchCooldown
  ELSE launchCooldownTime

(* Game.onPointerUp for the pointer id (also the pointercancel listener) *)
pointerUp(s, h, id, strong) ==
  IF ~s.running \/ s.paused THEN h
  ELSE IF h.dragging /\ h.pointerId = id
       THEN [h EXCEPT !.dragging = FALSE, !.pointerId = 0,
                      !.launchCooldown = launchCooldownAfter(s, h, strong)]
       ELSE h

NoHand == [ dragging |-> FALSE, pointerId |-> 0, launchCooldown |-> 0, down |-> {} ]

(* outside the run nothing is in progress *)
UnitsIdle ==
  /\ gen = NoBlueprint /\ sched = NoSchedule /\ foe = NoEnemy
  /\ tune = NoTuning /\ combo = NoCombo
  /\ nova = NoNova
  /\ storm = NoStorm
  /\ shot = NoShot
  /\ stack = NoStack
  /\ clock = NoClock
  /\ arena = NoField
  /\ clash = NoClash
  /\ hand = NoHand

----------------------------------------------------------------------------
(* Actions: one per task of the event loop; the microtasks a task queues
   run before the task ends *)

(* a task that changes nothing leaves no trace; op names the last task
   that changed the state *)
Act(s, name) ==
  IF RunMicrotasks(s) = State THEN UNCHANGED vars
  ELSE Commit([RunMicrotasks(s) EXCEPT !.tickTrace = << >>], name)

Start == ~running /\ Act(start(State), "start")

Dispose == running /\ Act(dispose(State), "dispose")

(* every state one animation frame can lead to from s *)
TickOutcomes(s) ==
  LET s0 == Cooldowns(s, TickDt) IN
  UNION { LET s1 == WaveManagerUpdate(s0, w) IN
          UNION { LET s2 == AdvanceOrbs(s1, oob) IN
                  UNION { LET s3 == AdvanceEnemies(s2, b) IN
                          { loop(s, TickDt, w, oob, b, c) :
                              c \in CollisionInputs(s3) } :
                          b \in BreachInputs(s2) } :
                  oob \in 0..s1.orbs } :
          w \in WaveInputs(s0) }

Tick ==
  /\ waveIndex < MaxWaves
  /\ \E t \in TickOutcomes(State) :
       /\ t # State
       /\ t.resetTimers <= MaxTimers
       /\ t.orbs <= MaxOrbs
       /\ Commit(t, "tick")

TogglePause == Act(togglePause(State), "togglePause")

ResumeRequested == paused /\ Act(onResumeRequested(State), "resumeRequested")

PointerDown == running /\ Act(onPointerDown(State), "pointerDown")

PointerUp ==
  /\ running /\ dragging
  /\ \E strong \in BOOLEAN :
       LET t == onPointerUp(State, strong) IN
       t.orbs <= MaxOrbs /\ Act(t, "pointerUp")

(* a click on a card of the draft overlay, and beginModifierDraft resumed
   by it *)
DraftClick ==
  /\ draftActive
  /\ \E choice \in draftOptions :
       \E rnd \in (IF draftStage = "upgrade" /\ shouldOfferMajor(State)
                  THEN MajorRandom ELSE { NoRandom }) :
         Act(ResumeDraft(finish(State), choice, rnd), "draftClick")

TimerFires == resetTimers > 0 /\ Act(GameOverTimeout(State), "gameOverTimeout")

(* a draft requested while one is in progress *)
DraftRequest ==
  /\ drafting
  /\ \E pick \in Rolls :
       Act(beginModifierDraft(State, pick, NoRandom), "draftRequest")

Init == Assign(NewGame, "new") /\ UnitsIdle

Next ==
  \/ Start
  \/ Dispose
  \/ Tick
  \/ TogglePause
  \/ ResumeRequested
  \/ PointerDown
  \/ PointerUp
  \/ DraftClick
  \/ TimerFires
  \/ DraftRequest

Spec == Init /\ [][Next]_vars

(* the GameOver timeout is a timer task: once due it is eventually run *)
SpecFair == Spec /\ WF_vars(TimerFires)


----------------------------------------------------------------------------
(* Late in a run.  A major draft comes every third wave, so the major pool
   runs dry only after 27 waves.  The states below are reached by playing
   the handlers above: in every wave one projectile kills the wave's single
   adversary, and every draft is answered with its first card. *)

OneGloob == << [type |-> "GloobZigzag", count |-> 1] >>

FirstIn(seq, set) ==
  seq[CHOOSE i \in 1..Len(seq) :
        seq[i] \in set /\ \A j \in 1..(i - 1) : seq[j] \notin set]

FirstCard(s) == FirstIn(UPGRADE_MODIFIERS \o MAJOR_MODIFIERS, s.draftOptions)

RECURSIVE AnswerDraft(_)
AnswerDraft(s) ==
  IF ~s.draftActive THEN s
  ELSE AnswerDraft(RunMicrotasks(ResumeDraft(finish(s), FirstCard(s), NoRandom)))

(* a strong launch if no projectile is in the field *)
Arm(s) == IF s.orbs = 0 THEN onPointerUp(onPointerDown(s), TRUE) ELSE s

(* the frame in which the wave's adversary is spawned and killed *)
Fight(s) ==
  IF ~s.running THEN s
  ELSE loop(s, TickDt,
            [bp |-> OneGloob, fire |-> {1}, pick |-> NoRolls, rnd |-> NoRandom],
            0, 0, [hits |-> 1, kills |-> 1, splits |-> 0])

(* the next frame, whose wave check finds the wave complete *)
Clear(s) ==
  IF ~s.running THEN s
  ELSE loop(s, TickDt,
            [bp |-> << >>, fire |-> {}, pick |-> NoRolls, rnd |-> NoRandom],
            0, 0, [hits |-> 0, kills |-> 0, splits |-> 0])

PlayWave(s) ==
  [AnswerDraft(Clear(Fight(Arm(s)))) EXCEPT !.tickTrace = << >>]

(* n waves played from s, one after the other *)
RECURSIVE PlayWaves(_, _)
PlayWaves(s, n) ==
  IF n = 0 THEN s
  ELSE CHOOSE r \in { PlayWave(p) : p \in { PlayWaves(s, n - 1) } } : TRUE

(* the run after its 1st, 2nd, 8th, ... 29th wave and draft *)
AfterWave1 == PlayWaves(start(NewGame), 1)
AfterWave2 == PlayWaves(start(NewGame), 2)
AfterWave8 == PlayWaves(AfterWave2, 6)
AfterWave14 == PlayWaves(AfterWave8, 6)
AfterWave20 == PlayWaves(AfterWave14, 6)
AfterWave26 == PlayWaves(AfterWave20, 6)
AfterWave29 == PlayWaves(AfterWave26, 3)

(* the states the late run is entered in: the first is followed by a wave
   with no major draft due, the others by a wave with one due, with the
   major pool full, down to its last entry, and empty *)
LateStates == { AfterWave1, AfterWave2, AfterWave26, AfterWave29 }

LateWaves == { s.waveIndex : s \in LateStates }

LateInit == UnitsIdle /\ \E s \in LateStates : Assign(s, "draftClick")

(* the frames of the wave the late run was entered in *)
LateTick ==
  /\ waveIndex \in LateWaves
  /\ \E t \in TickOutcomes(State) :
       /\ t # State
       /\ t.orbs <= MaxOrbs
       /\ Commit(t, "tick")

LateNext ==
  \/ LateTick
  \/ Start
  \/ Dispose
  \/ TogglePause
  \/ ResumeRequested
  \/ PointerDown
  \/ PointerUp
  \/ DraftClick
  \/ DraftRequest

SpecLateRun == LateInit /\ [][LateNext]_vars

----------------------------------------------------------------------------
(* The wave generator on its own: blueprints are built for the first
   waves of a run *)

GenInit == Assign(NewGame, "new") /\ UnitsIdle

PickWave ==
  /\ ~gen.built
  /\ \E index \in 0..(MaxGenWaves - 1) :
     \E g \in pickWave(index) :
      /\ gen' = g
      /\ UNCHANGED << gameVars, sched, foe, tune, combo, nova, storm, shot, stack, clock, arena, clash, hand >>

GenNext == PickWave

SpecWaveGen == GenInit /\ [][GenNext]_vars

----------------------------------------------------------------------------
(* The spawn timer on its own: a group is loaded and ticks of different
   durations follow *)

SchedCounts == 2..MaxSchedCount
SchedCadences == { 50, 100 }
SchedOffsets == { 0, 30 }
SchedDts == { 20, 150 }

SchedInit == Assign(NewGame, "new") /\ UnitsIdle

LoadSpawn ==
  /\ ~sched.loaded
  /\ \E count \in SchedCounts, cadence \in SchedCadences :
       \E offset \in { o \in SchedOffsets : o <= Min(200, cadence) } :
         sched' = loadSpawn(count, cadence, offset)
  /\ UNCHANGED << gameVars, gen, foe, tune, combo, nova, storm, shot, stack, clock, arena, clash, hand >>

SpawnTick ==
  /\ sched.loaded
  /\ \E dt \in SchedDts :
       /\ sched.elapsed + dt <= MaxElapsed
       /\ sched' = spawnUpdate(sched, dt)
  /\ UNCHANGED << gameVars, gen, foe, tune, combo, nova, storm, shot, stack, clock, arena, clash, hand >>

SchedNext == LoadSpawn \/ SpawnTick

SpecSpawn == SchedInit /\ [][SchedNext]_vars

----------------------------------------------------------------------------
(* One adversary on its own: it is spawned, then hit, slowed, knocked back
   and updated in any order *)

EnemyHps == { 10, 30 }
EnemyShields == { 0, 20, 60 }
Damages == { 5, 20, 35 }
Slows == { << 100, 600 >>, << 50, 800 >>, << 140, 450 >>, << 380, 400 >> }
Forces == { 320, 620 }
EnemyDts == { 50 }

EnemyInit == Assign(NewGame, "new") /\ UnitsIdle

Called(e, call) ==
  /\ foe' = [foe EXCEPT !.e = e, !.prev = foe.e, !.call = call]
  /\ UNCHANGED << gameVars, gen, sched, tune, combo, nova, storm, shot, stack, clock, arena, clash, hand >>

SpawnFoe ==
  /\ foe.call = << "none" >>
  /\ \E hp \in EnemyHps, shield \in EnemyShields :
       Called(Enemy(hp, shield), << "new" >>)

Spawned == foe.call # << "none" >>

TakeDamage ==
  /\ Spawned
  /\ \E amount \in Damages :
       Called(takeDamage(foe.e, amount), << "takeDamage", amount >>)

ApplySlow ==
  /\ Spawned
  /\ \E slow \in Slows :
       Called(applySlow(foe.e, slow[1], slow[2]),
              << "applySlow", slow[1], slow[2] >>)

ApplyKnockback ==
  /\ Spawned
  /\ \E force \in Forces :
       Called(applyKnockback(foe.e, force), << "applyKnockback", force >>)

EnemyUpdate ==
  /\ Spawned
  /\ \E dt \in EnemyDts :
       Called(enemyUpdate(foe.e, dt), << "update", dt >>)

EnemyNext ==
  \/ SpawnFoe
  \/ TakeDamage
  \/ ApplySlow
  \/ ApplyKnockback
  \/ EnemyUpdate

SpecEnemy == EnemyInit /\ [][EnemyNext]_vars

(* an adversary between the hits of the player and the pulses of an
   AegisSentinel next to it *)
AegisPulse ==
  /\ Spawned
  /\ Called(aegisPulse(foe.e), << "aegisPulse" >>)

EnemyHpNext == SpawnFoe \/ TakeDamage \/ AegisPulse

SpecEnemyHp == EnemyInit /\ [][EnemyHpNext]_vars

(* a BulwarkGloob next to an AegisSentinel: its own behavior restores its
   shield in every frame, the player hits it and the sentinel pulses *)
BulwarkHps == { 60 }
BulwarkShield == 60
BulwarkDts == { 50 }

SpawnBulwark ==
  /\ foe.call = << "none" >>
  /\ \E hp \in BulwarkHps :
       /\ foe' = [e |-> Enemy(hp, BulwarkShield), prev |-> foe.e,
                  call |-> << "new" >>, kind |-> "BulwarkGloob"]
       /\ UNCHANGED << gameVars, gen, sched, tune, combo, nova, storm, shot, stack, clock, arena, clash, hand >>

BulwarkBehavior ==
  /\ Spawned /\ foe.kind = "BulwarkGloob" /\ foe.e.alive
  /\ \E dt \in BulwarkDts :
       Called(bulwarkBehavior(foe.e, dt), << "behavior", dt >>)

AegisNext ==
  \/ SpawnFoe
  \/ SpawnBulwark
  \/ TakeDamage
  \/ BulwarkBehavior
  \/ AegisPulse

SpecAegis == EnemyInit /\ [][AegisNext]_vars

----------------------------------------------------------------------------
(* The tuning on its own: the tuning of a wave is built, a group of the
   wave is scaled and a member of it spawned *)

BaseCounts == { 1, 4 }
BaseHps == { 3, 18 }
(* DIFFICULTIES: enemyHpMultiplier *)
Difficulties == { 75, 100, 135 }

TuneInit == Assign(NewGame, "new") /\ UnitsIdle

BuildTuning ==
  /\ ~tune.built
  /\ \E waveNumber \in 1..MaxTuningWave :
       \E r \in buildEnemyTuning(waveNumber) : tune' = r
  /\ UNCHANGED << gameVars, gen, sched, foe, combo, nova, storm, shot, stack, clock, arena, clash, hand >>

ScaleGroup ==
  /\ tune.built /\ ~tune.group.scaled
  /\ \E baseCount \in BaseCounts :
       tune' = [tune EXCEPT !.group.scaled = TRUE,
                            !.group.baseCount = baseCount,
                            !.group.count = scaleCount(tune.scaling, baseCount)]
  /\ UNCHANGED << gameVars, gen, sched, foe, combo, nova, storm, shot, stack, clock, arena, clash, hand >>

SpawnScaled ==
  /\ tune.group.scaled /\ ~tune.group.spawned
  /\ \E hp \in BaseHps, difficulty \in Difficulties :
       tune' = [tune EXCEPT !.group.spawned = TRUE,
                            !.group.baseHp = hp,
                            !.group.difficulty = difficulty,
                            !.group.hp = spawnHp(tune.scaling, hp, difficulty)]
  /\ UNCHANGED << gameVars, gen, sched, foe, combo, nova, storm, shot, stack, clock, arena, clash, hand >>

TuneNext == BuildTuning \/ ScaleGroup \/ SpawnScaled

SpecTuning == TuneInit /\ [][TuneNext]_vars

----------------------------------------------------------------------------
(* Score and combo heat on their own: kills and the combo decay of ticks
   of different durations, in any order *)

KillHps == { 5 }
ComboDts == { 50, 75 }

ComboInit == Assign(NewGame, "new") /\ UnitsIdle

KillEnemy ==
  /\ comboHeat < MaxHeat * 100 /\ score < MaxScore
  /\ \E maxHp \in KillHps :
       LET t == onEnemyKilled(State, maxHp) IN
       /\ CommitGame(t, "kill")
       /\ combo' = [NoCombo EXCEPT
                      !.heatAtKill = t.comboHeat,
                      !.kill = [maxHp |-> maxHp, heat |-> comboHeat,
                                delta |-> t.score - score]]
  /\ UNCHANGED << gen, sched, foe, tune, nova, storm, shot, stack, clock, arena, clash, hand >>

ComboTick ==
  /\ \E dt \in ComboDts :
       /\ combo.quiet + dt <= MaxQuiet
       /\ CommitGame(ComboDecay(State, dt), "decay")
       /\ combo' = [combo EXCEPT !.quiet = @ + dt, !.dts = @ \cup { dt }]
  /\ UNCHANGED << gen, sched, foe, tune, nova, storm, shot, stack, clock, arena, clash, hand >>

ComboNext == KillEnemy \/ ComboTick

SpecCombo == ComboInit /\ [][ComboNext]_vars

----------------------------------------------------------------------------
(* The special charge in a run: frames that kill, let through and spawn
   adversaries, the wave completion and its draft, manual pause, GameOver
   and its timeout, and the request of the special from the HUD *)

NovaInit == Assign(NewGame, "new") /\ UnitsIdle

RECURSIVE ChargeTimes(_, _)
ChargeTimes(n, k) == IF k = 0 THEN n ELSE ChargeTimes(chargeNovaPulse(n), k - 1)

NovaStart ==
  /\ ~running
  /\ CommitGame(start(State), "start")
  /\ nova' = NoNova
  /\ UNCHANGED << gen, sched, foe, tune, combo, storm, shot, stack, clock, arena, clash, hand >>

(* one frame: kills of the adversaries die (onEnemyKilled charges the
   special), b of them breach, the others are advanced, and one more is
   spawned or not *)
NovaTick ==
  /\ running /\ ~paused /\ score < MaxScore
  /\ \E kills \in 0..Len(nova.foes) :
       \E b \in 0..(Len(nova.foes) - kills) :
         \E spawn \in 0..(MaxNovaFoes - Len(nova.foes) + kills + b) :
           LET t == Breaches(Kills(State, kills), b)
               left == SubSeq(nova.foes, kills + b + 1, Len(nova.foes))
               moved == [i \in DOMAIN left |-> enemyUpdate(left[i], TickDt)]
               fresh == [i \in 1..spawn |-> Enemy(10, 0)]
           IN /\ kills + b + spawn > 0 \/ moved # nova.foes
              /\ t.resetTimers <= MaxTimers
              /\ CommitGame(t, "tick")
              /\ nova' = [ChargeTimes(nova, kills) EXCEPT !.foes = moved \o fresh]
  /\ UNCHANGED << gen, sched, foe, tune, combo, storm, shot, stack, clock, arena, clash, hand >>

(* the frame whose wave check finds the field empty and starts the draft *)
NovaWaveComplete ==
  /\ running /\ ~paused /\ nova.foes = << >>
  /\ completedWaves < MaxNovaDrafts
  /\ CommitGame(onWaveComplete(State, NoRolls, NoRandom), "tick")
  /\ UNCHANGED unitVars

NovaTimeout ==
  /\ resetTimers > 0
  /\ CommitGame(GameOverTimeout(State), "gameOverTimeout")
  /\ nova' = NoNova
  /\ UNCHANGED << gen, sched, foe, tune, combo, storm, shot, stack, clock, arena, clash, hand >>

(* the callback registered with hud.onSpecialRequested *)
SpecialRequested ==
  /\ CommitGame(State, "special")
  /\ nova' = tryActivateNovaPulse(State, nova)
  /\ op # "special" \/ nova' # nova
  /\ UNCHANGED << gen, sched, foe, tune, combo, storm, shot, stack, clock, arena, clash, hand >>

NovaNext ==
  \/ NovaStart
  \/ NovaTick
  \/ NovaWaveComplete
  \/ NovaTimeout
  \/ SpecialRequested
  \/ TogglePause
  \/ DraftClick

SpecNova == NovaInit /\ [][NovaNext]_vars

----------------------------------------------------------------------------
(* Chain lightning on its own: a field of projectiles and adversaries is
   set up with the Storm Lattice modifier picked, then frames follow *)

MaxStormOrbs == 3
MaxStormFoes == 2
StormFoes == { Enemy(10, 0), Enemy(30, 20) }
StormDts == { 10 }

StormInit == Assign(NewGame, "new") /\ UnitsIdle

StormSetup ==
  /\ ~storm.loaded
  /\ \E orbCount \in 0..MaxStormOrbs, foeCount \in 1..MaxStormFoes :
       \E alive \in [1..orbCount -> BOOLEAN], fs \in [1..foeCount -> StormFoes] :
         \E near \in SUBSET { t \in (1..orbCount) \X (1..orbCount) \X (1..foeCount) :
                                t[1] < t[2] } :
           storm' = [NoStorm EXCEPT
                       !.loaded = TRUE, !.orbs = alive, !.foes = fs,
                       !.before = fs, !.near = near,
                       !.hits = [k \in 1..foeCount |-> 0],
                       !.cl = ModifierApply("stormLattice",
                                            createInitialModifiers).chainLightning[1]]
  /\ UNCHANGED << gameVars, gen, sched, foe, tune, combo, nova, shot, stack, clock, arena, clash, hand >>

StormTick ==
  /\ storm.loaded
  /\ \E dt \in StormDts : storm' = chainUpdate(storm, dt)
  /\ UNCHANGED << gameVars, gen, sched, foe, tune, combo, nova, shot, stack, clock, arena, clash, hand >>

StormNext == StormSetup \/ StormTick

SpecStorm == StormInit /\ [][StormNext]_vars

----------------------------------------------------------------------------
(* The projectiles on their own: launches, frames in which projectiles
   bounce off walls, leave the field, hit adversaries and split, and the
   picks of the modifiers the projectiles read, each picked once *)

MaxShotOrbs == 3
MaxOrbId == 6
MaxBounces == 2
ShotPicks == { "wallHitDamageBoost", "fractalSplinters" }

(* what Orb.update can do to a projectile in a frame: no, one or two wall
   bounces, or the fall out of the field *)
OrbMoves ==
  { [walls |-> 0, out |-> FALSE], [walls |-> 1, out |-> FALSE],
    [walls |-> 2, out |-> FALSE], [walls |-> 0, out |-> TRUE] }

ShotInit == Assign(NewGame, "new") /\ UnitsIdle

ShotLaunch ==
  /\ Len(shot.orbs) < 2
  /\ launchOrbs(shot).nextId <= MaxOrbId
  /\ shot' = launchOrbs(shot)
  /\ UNCHANGED << gameVars, gen, sched, foe, tune, combo, nova, storm, stack, clock, arena, clash, hand >>

ShotPick ==
  /\ \E id \in ShotPicks :
       /\ id = "wallHitDamageBoost" => shot.m.wallHitDamageBonusPercent = 0
       /\ id = "fractalSplinters" => ~shot.m.splitOnImpact
       /\ shot' = applyToOrbs(shot, id)
  /\ UNCHANGED << gameVars, gen, sched, foe, tune, combo, nova, storm, stack, clock, arena, clash, hand >>

ShotTick ==
  /\ shot.orbs # << >>
  /\ \E moves \in [DOMAIN shot.orbs -> OrbMoves],
        hits \in [1..MaxShotOrbs -> BOOLEAN] :
       \E t \in { orbsUpdate(shot, moves, hits) } :
         /\ Len(t.orbs) <= MaxShotOrbs /\ t.nextId <= MaxOrbId
         /\ \A i \in DOMAIN t.orbs : t.orbs[i].walls <= MaxBounces
         /\ shot' = t
  /\ UNCHANGED << gameVars, gen, sched, foe, tune, combo, nova, storm, stack, clock, arena, clash, hand >>

ShotNext == ShotLaunch \/ ShotPick \/ ShotTick

SpecOrb == ShotInit /\ [][ShotNext]_vars

----------------------------------------------------------------------------
(* A run with Storm Lattice.  The third wave is played as the first two;
   its upgrade draft is answered with the first card, the random numbers
   of the major draft are those under which Storm Lattice is among the
   three cards, and Storm Lattice is picked.  The wave after that is then
   played freely, with up to MaxLatticeOrbs projectiles in the field. *)

MaxLatticeOrbs == 2

RareRolls == [rarity |-> [i \in 1..DraftSlots |-> 950], pick |-> NoRolls]

AfterStormDraft ==
  LET s3 == Clear(Fight(Arm(AfterWave2)))
      s4 == RunMicrotasks(ResumeDraft(finish(s3), FirstCard(s3), RareRolls))
      s5 == RunMicrotasks(ResumeDraft(finish(s4), "stormLattice", NoRandom))
  IN [s5 EXCEPT !.tickTrace = << >>]

LatticeInit == UnitsIdle /\ Assign(AfterStormDraft, "draftClick")

LatticeTick ==
  /\ waveIndex = AfterStormDraft.waveIndex
  /\ \E t \in TickOutcomes(State) :
       /\ t # State
       /\ t.orbs <= MaxLatticeOrbs
       /\ Commit(t, "tick")

LatticePointerUp ==
  /\ running /\ dragging
  /\ \E strong \in BOOLEAN :
       LET t == onPointerUp(State, strong) IN
       t.orbs <= MaxLatticeOrbs /\ Act(t, "pointerUp")

LatticeNext ==
  \/ LatticeTick
  \/ PointerDown
  \/ LatticePointerUp
  \/ TogglePause
  \/ DraftClick

SpecLattice == LatticeInit /\ [][LatticeNext]_vars

----------------------------------------------------------------------------
(* The stacking rules on their own: slow, explosion and chain-lightning
   effects applied in any order with the values of the modifier table and
   with weaker and stronger ones, and frames that run the chain cooldown *)

MaxStacks == 3

SlowDurations == { 100, 140, 200 }
SlowFactors == { 300, 450, 600 }
BlastRadii == { 100, 140, 180 }
BlastDamages == { 800, 1200 }
ChainRanges == { 180, 220, 260 }
ChainDamages == { 300, 500 }
ChainIntervals == { 12, 18, 24 }
StackDts == { 10 }

StackInit == Assign(NewGame, "new") /\ UnitsIdle

Stacked(m, kind, args) ==
  [ m |-> m, prev |-> stack.m, kind |-> kind, args |-> args, n |-> stack.n + 1 ]

StackSlow ==
  /\ stack.n < MaxStacks
  /\ \E duration \in SlowDurations, factor \in SlowFactors :
       stack' = Stacked(ensureSlow(stack.m, duration, factor), "slow",
                        << duration, factor >>)
  /\ UNCHANGED << gameVars, gen, sched, foe, tune, combo, nova, storm, shot, clock, arena, clash, hand >>

StackExplosion ==
  /\ stack.n < MaxStacks
  /\ \E radius \in BlastRadii, damage \in BlastDamages :
       stack' = Stacked(ensureExplosion(stack.m, radius, damage), "explosion",
                        << radius, damage >>)
  /\ UNCHANGED << gameVars, gen, sched, foe, tune, combo, nova, storm, shot, clock, arena, clash, hand >>

StackChain ==
  /\ stack.n < MaxStacks
  /\ \E range \in ChainRanges, damage \in ChainDamages, interval \in ChainIntervals :
       stack' = Stacked(ensureChain(stack.m, range, damage, interval), "chain",
                        << range, damage, interval >>)
  /\ UNCHANGED << gameVars, gen, sched, foe, tune, combo, nova, storm, shot, clock, arena, clash, hand >>

(* a frame with two projectiles in flight moves the chain cooldown *)
StackTick ==
  /\ stack.m.chainLightning # << >>
  /\ stack.kind # "tick"
  /\ \E dt \in StackDts :
       stack' = [stack EXCEPT
                   !.m = ChainStep([modifiers |-> stack.m, orbs |-> 2], dt).modifiers,
                   !.prev = stack.m, !.kind = "tick", !.args = << >>]
  /\ UNCHANGED << gameVars, gen, sched, foe, tune, combo, nova, storm, shot, clock, arena, clash, hand >>

StackNext == StackSlow \/ StackExplosion \/ StackChain \/ StackTick

SpecStack == StackInit /\ [][StackNext]_vars

----------------------------------------------------------------------------
(* The time reference on its own: a run without launches, in which time
   passes between the tasks, frames get the time since the last frame as
   their delta, waves end by breaches, drafts are answered, the player
   pauses and resumes, and the GameOver timeout fires *)

MaxNow == 4

ClockInit == Assign(NewGame, "new") /\ UnitsIdle

(* the task that led from the current state to t, with c the time
   reference its handler leaves; a draft rejected by the task ends in its
   microtask *)
ClockAct(t, name, c) ==
  LET t1 == RunMicrotasks(t)
      c1 == IF t.microtask = "draftRejected"
            THEN DraftFinally_Time(t1, c, TRUE) ELSE c
      goes == t1.running /\ ~t1.paused
      went == running /\ ~paused
  IN /\ CommitGame([t1 EXCEPT !.tickTrace = << >>], name)
     /\ clock' = [c1 EXCEPT
                    !.pausedAt = IF went /\ ~goes THEN c.now ELSE @,
                    !.resumedAt = IF goes /\ ~went THEN c.now ELSE @,
                    !.kind = IF goes /\ ~went THEN name ELSE @]
     /\ UNCHANGED << gen, sched, foe, tune, combo, nova, storm, shot, stack, arena, clash, hand >>

Elapse ==
  /\ clock.now < MaxNow
  /\ ClockAct(State, "elapse", [clock EXCEPT !.now = @ + 1])

ClockStart ==
  /\ ~running
  /\ ClockAct(start(State), "start", start_Time(State, clock))

(* an animation frame at time now *)
ClockFrame ==
  /\ running /\ ~paused /\ waveIndex < MaxWaves
  /\ LET dt == (clock.now - clock.lastTime) * TickDt
         s0 == Cooldowns(State, dt) IN
     \E w \in { x \in WaveInputs(s0) : x.pick = NoRolls } :
       \E b \in BreachInputs(WaveManagerUpdate(s0, w)) :
         \E t \in { loop(State, dt, w, 0, b, [hits |-> 0, kills |-> 0, splits |-> 0]) } :
           /\ t.resetTimers <= MaxTimers
           /\ ClockAct(t, "tick", loop_Time(State, clock))

ClockTogglePause ==
  /\ togglePause(State) # State
  /\ ClockAct(togglePause(State), "togglePause", togglePause_Time(State, clock))

ClockDraftClick ==
  /\ draftActive
  /\ \E choice \in draftOptions :
       \E t \in { ResumeDraft(finish(State), choice, NoRandom) } :
         ClockAct(t, "draftClick",
                  IF t.drafting THEN clock ELSE DraftFinally_Time(t, clock, FALSE))

ClockTimerFires ==
  /\ resetTimers > 0
  /\ ClockAct(GameOverTimeout(State), "gameOverTimeout", GameOverTimeout_Time(clock))

ClockNext ==
  \/ Elapse
  \/ ClockStart
  \/ ClockFrame
  \/ ClockTogglePause
  \/ ClockDraftClick
  \/ ClockTimerFires

SpecClock == ClockInit /\ [][ClockNext]_vars

----------------------------------------------------------------------------
(* The lane mapping on its own: the canvas is resized to one of the widths
   below, and the lanes of a blueprint are mapped to their x *)

MaxWidthSteps == 18

FieldWidths == { 540 + 20 * i : i \in 0..MaxWidthSteps }

FieldInit == Assign(NewGame, "new") /\ UnitsIdle

(* onResize: the width changes, and no lane has been mapped with it yet *)
Resize ==
  /\ \E w \in FieldWidths : arena' = [ width |-> w, lane |-> 0, x |-> 0 ]
  /\ UNCHANGED << gameVars, gen, sched, foe, tune, combo, nova, storm, shot, stack, clock, clash, hand >>

LaneToWorld ==
  /\ \E l \in 1..laneCount :
       arena' = [arena EXCEPT !.lane = l, !.x = laneToWorld(arena.width, l)]
  /\ UNCHANGED << gameVars, gen, sched, foe, tune, combo, nova, storm, shot, stack, clock, clash, hand >>

FieldNext == Resize \/ LaneToWorld

SpecField == FieldInit /\ [][FieldNext]_vars

----------------------------------------------------------------------------
(* GameOver on its own: a run without launches, in which every adversary
   breaches sooner or later, with room for more than one pending GameOver
   timeout *)

MaxPending == 2

BreachTick ==
  /\ waveIndex < MaxWaves
  /\ \E t \in TickOutcomes(State) :
       /\ t # State
       /\ t.resetTimers <= MaxPending
       /\ Commit(t, "tick")

GameOverNext ==
  \/ Start
  \/ BreachTick
  \/ TogglePause
  \/ DraftClick
  \/ TimerFires

SpecGameOver == Init /\ [][GameOverNext]_vars

----------------------------------------------------------------------------
(* One frame of projectiles against adversaries on its own: one or two
   projectiles are in the field with one or two adversaries, with and
   without split-on-impact, explosion and chain lightning; then the frame
   runs: adversaries breach, handleCollisions runs turn by turn, and the
   frame ends with the chain-lightning tick and the filters *)

MaxClashOrbs == 2
MaxClashList == 40

(* the adversaries in the field, as << kind, hp, shield >> *)
ClashFields ==
  { << << "GloobZigzag", 30, 0 >> >>,
    << << "SplitterGloob", 20, 0 >> >>,
    << << "ShieldyGloob", 10, 20 >>, << "GloobZigzag", 10, 0 >> >>,
    << << "SplitterGloob", 10, 0 >>, << "GloobZigzag", 30, 0 >> >>,
    << << "GloobZigzag", 25, 0 >>, << "GloobZigzag", 10, 0 >> >> }

ClashInit == Assign(NewGame, "new") /\ UnitsIdle

ClashSetup ==
  /\ clash.phase = "idle"
  /\ \E n \in 1..MaxClashOrbs, fs \in ClashFields, split \in BOOLEAN,
        explosion \in BOOLEAN, chain \in BOOLEAN, blastAll \in BOOLEAN,
        childNear \in BOOLEAN :
       \E near \in [DOMAIN fs -> (SUBSET (1..n)) \ {{}}] :
         clash' = [NoClash EXCEPT
                     !.phase = "set",
                     !.orbs = [p \in 1..n |-> ClashOrb(p, split, 0)],
                     !.foes = [k \in DOMAIN fs |->
                                 ClashFoe(fs[k][1], fs[k][2], fs[k][3], near[k], 0)],
                     !.explosion = explosion, !.chain = chain,
                     !.blastAll = blastAll /\ explosion,
                     !.childNear = childNear,
                     !.chainNear = chain]
  /\ UNCHANGED << gameVars, gen, sched, foe, tune, combo, nova, storm, shot, stack, clock, arena, hand >>

ClashMove ==
  /\ clash.phase = "set"
  /\ \E b \in SUBSET (DOMAIN clash.foes) : clash' = clashMove(clash, b)
  /\ UNCHANGED << gameVars, gen, sched, foe, tune, combo, nova, storm, shot, stack, clock, arena, hand >>

ClashCollide ==
  /\ clash.phase = "moved"
  /\ Len(clash.orbs) <= MaxClashList /\ Len(clash.foes) <= MaxClashList
  /\ clash' = handleCollisionsStep(clash)
  /\ UNCHANGED << gameVars, gen, sched, foe, tune, combo, nova, storm, shot, stack, clock, arena, hand >>

ClashFinish ==
  /\ clash.phase = "collided"
  /\ clash' = clashFinish(clash)
  /\ UNCHANGED << gameVars, gen, sched, foe, tune, combo, nova, storm, shot, stack, clock, arena, hand >>

ClashNext == ClashSetup \/ ClashMove \/ ClashCollide \/ ClashFinish

SpecClash == ClashInit /\ [][ClashNext]_vars

----------------------------------------------------------------------------
(* The launcher on its own: pointers go down on the canvas and come up
   again while the run is started, paused and resumed, interrupted by a
   draft and by GameOver, and frames run the cooldowns down *)

MaxPointerId == 2
HandDts == { 20 }

HandInit == Assign(NewGame, "new") /\ UnitsIdle

HandDown ==
  /\ \E id \in (1..MaxPointerId) \ hand.down :
       hand' = [pointerDown(State, hand, id) EXCEPT !.down = @ \cup {id}]
  /\ UNCHANGED << gameVars, gen, sched, foe, tune, combo, nova, storm, shot, stack, clock, arena, clash >>

HandUp ==
  /\ \E id \in hand.down, strong \in BOOLEAN :
       hand' = [pointerUp(State, hand, id, strong) EXCEPT !.down = @ \ {id}]
  /\ UNCHANGED << gameVars, gen, sched, foe, tune, combo, nova, storm, shot, stack, clock, arena, clash >>

(* a frame in which nothing but the cooldowns moves *)
HandTick ==
  /\ running /\ ~paused
  /\ hand.launchCooldown > 0 \/ pauseInputCooldown > 0
  /\ \E dt \in HandDts :
       /\ CommitGame(Cooldowns(State, dt), "tick")
       /\ hand' = [hand EXCEPT !.launchCooldown = Max(0, @ - dt)]
  /\ UNCHANGED << gen, sched, foe, tune, combo, nova, storm, shot, stack, clock, arena, clash >>

(* a frame in which an adversary breaches *)
HandBreach ==
  /\ running /\ ~paused /\ lives > 0
  /\ onEnemyBreach(State).resetTimers <= MaxTimers
  /\ Commit(onEnemyBreach(State), "tick")

(* a frame whose wave check starts the draft *)
HandWaveComplete ==
  /\ running /\ ~paused /\ ~drafting /\ lives > 0 /\ completedWaves < 1
  /\ Commit(onWaveComplete(State, NoRolls, NoRandom), "tick")

HandNext ==
  \/ Start
  \/ TogglePause
  \/ HandDown
  \/ HandUp
  \/ HandTick
  \/ HandBreach
  \/ HandWaveComplete
  \/ DraftClick
  \/ TimerFires

SpecLauncher == HandInit /\ [][HandNext]_vars

----------------------------------------------------------------------------
(* Properties *)

Tags == Range(tickTrace)

(* the tags the last tick logged after its first tag a *)
After(a) ==
  { tickTrace[j] : j \in { k \in 1..Len(tickTrace) :
                             \E i \in 1..(k - 1) : tickTrace[i] = a } }

(* the place of a phase in the last tick *)
Pos(a) == CHOOSE i \in 1..Len(tickTrace) : tickTrace[i] = a

Frozen == TickOutcomes(State) = { State }

FreshRun ==
  /\ lives = maxLives /\ score = 0 /\ comboHeat = 0
  /\ orbs = 0 /\ deadOrbs = 0 /\ enemies = 0 /\ deadEnemies = 0
  /\ modifiers = createInitialModifiers
  /\ playerModifierCounts = NoPicks
  /\ availableMajorModifiers = MajorIds
  /\ waveIndex = 0 /\ spawns = << >> /\ completedWaves = 0

ResetOps == { "start", "dispose", "gameOverTimeout" }

(* C1, as stated: once a wave completion has started a draft, no projectile
   or adversary is advanced, no collision is resolved and no adversary is
   spawned, neither in the rest of that tick nor by a later tick, until the
   draft has ended. *)
C1_NoWorkOnceDraftStarts ==
  /\ After("draftBegin") \cap { "orbAdvanced", "enemyAdvanced", "hit", "spawn" } = {}
  /\ drafting => Frozen

(* C1, amended: while a draft is in progress no tick changes anything, and
   the tick that started the draft advances no adversary, resolves no
   collision and spawns no adversary after the draft has begun; it does
   still advance its live projectiles. *)
C1_NoTickWhileDrafting ==
  /\ After("draftBegin") \cap { "enemyAdvanced", "hit", "spawn" } = {}
  /\ drafting => Frozen

(* a draft was started by a tick that went on to advance a projectile *)
C1_Witness ==
  op = "tick" /\ drafting /\ "orbAdvanced" \in After("draftBegin")

(* C2: a draft request made while a draft is in progress changes no state
   and presents nothing, so the overlay never holds a draft that is not the
   one in progress. *)
C2_DraftReentryIsNoOp ==
  /\ drafting => \A pick \in Rolls :
                   beginModifierDraft(State, pick, NoRandom) = State
  /\ draftActive => drafting /\ draftStage # "none"

(* a draft is on screen, its request still waiting for the choice *)
C2_Witness == drafting /\ draftActive /\ draftOptions # {} /\ lives > 0

(* C3: while a draft is in progress the run is paused and a pause toggle
   (the key or the overlay's resume button) changes nothing. *)
C3_PauseLockedWhileDrafting ==
  drafting =>
    /\ paused /\ pauseLocked
    /\ togglePause(State) = State
    /\ onResumeRequested(State) = State

(* a running game paused by its draft *)
C3_Witness == running /\ drafting /\ paused /\ pauseLocked /\ draftStage = "upgrade"

(* C4: a reset (start, dispose or the GameOver timeout) that finds a draft
   outstanding ends it without applying a choice: afterwards the modifier
   state, the pick counts, the lives and the major pool are those of a
   fresh run, drafting, pauseLocked and paused are false and no draft is
   pending. *)
C4_ResetCancelsDraft ==
  [][ (draftActive /\ op' \in ResetOps) =>
        /\ modifiers' = createInitialModifiers
        /\ playerModifierCounts' = NoPicks
        /\ lives' = maxLives
        /\ availableMajorModifiers' = MajorIds
        /\ ~drafting' /\ ~pauseLocked' /\ ~paused'
        /\ ~draftActive' /\ draftOptions' = {} /\ draftStage' = "none"
        /\ microtask' = "none" ]_vars

(* a reset has run the cancelled draft's finally block: only that block
   leaves the pause cooldown set on an unpaused fresh run *)
C4_Witness ==
  /\ op \in ResetOps /\ FreshRun
  /\ ~paused /\ ~drafting /\ ~draftActive
  /\ pauseInputCooldown = PauseCooldown

(* C5, as stated: with the lives at 0 the simulation is frozen until the
   delayed reset has run. *)
C5_FrozenUntilReset == lives = 0 => Frozen

(* C6: a loaded wave is reported complete at most once, only with every
   spawn group exhausted and no adversary alive, and none of its members
   is spawned after the report. *)
C6_WaveCompleteOnce ==
  waveLog.reports <= 1 /\ waveLog.clean /\ ~waveLog.lateSpawn

(* a tick has just reported a wave complete *)
C6_Witness ==
  op = "tick" /\ "waveComplete" \in Tags /\ waveLog.reports = 1 /\ spawns = << >>

(* C7, as stated: in a tick, advancement comes before collision
   resolution, that before the filtering of the dead, that before the
   wave-completion check. *)
C7_WaveCheckLast ==
  tickTrace # << >> =>
    /\ Pos("orbs") < Pos("collisions") /\ Pos("enemies") < Pos("collisions")
    /\ Pos("collisions") < Pos("filter")
    /\ Pos("filter") < Pos("wave")

(* C7, amended: in a tick the wave spawning and the wave-completion check
   come first, then projectile and adversary advancement, then collision
   resolution, then the filtering of the dead. *)
C7_WaveCheckFirst ==
  tickTrace # << >> =>
    /\ Pos("wave") < Pos("orbs") /\ Pos("wave") < Pos("enemies")
    /\ Pos("orbs") < Pos("collisions") /\ Pos("enemies") < Pos("collisions")
    /\ Pos("collisions") < Pos("filter")
    /\ After("filter") = {}
    /\ After("orbs") \cap { "spawn", "waveComplete", "draftBegin" } = {}

(* a tick in which every phase had work to do *)
C7_Witness ==
  op = "tick" /\ { "spawn", "orbAdvanced", "enemyAdvanced", "hit" } \subseteq Tags

(* C8: after the reset of the GameOver timeout the lives are maxLives, the
   score and comboHeat are 0, there are no projectiles and no adversaries,
   the modifier state, pick counts and major pool are those of a fresh run
   and the wave index is 0. *)
C8_ResetComplete == op = "gameOverTimeout" => FreshRun

(* the timeout has reset a run that was over *)
C8_Witness == op = "gameOverTimeout" /\ FreshRun /\ resetTimers = 0

(* C9: with the timeout callback eventually run, every GameOver leads to
   a reset by it after which the game is not paused, not drafting and has
   maxLives lives. *)
C9_GameOverLeadsToReset ==
  (lives = 0) ~> (op = "gameOverTimeout" /\ ~paused /\ ~drafting
                    /\ lives = maxLives)

(* the timeout has reset the run and left the game running, unpaused *)
C9_Witness ==
  op = "gameOverTimeout" /\ running /\ ~paused /\ ~drafting /\ lives = maxLives

(* C10: in a run a major modifier is applied at most once; a drafted one
   is out of the major pool, every major offer shows members of the pool
   only, and with the pool empty no major offer is made. *)
C10_MajorOncePerRun ==
  /\ \A id \in MajorIds :
       /\ playerModifierCounts[id] <= 1
       /\ playerModifierCounts[id] = 1 => id \notin availableMajorModifiers
  /\ draftStage = "major" =>
       /\ draftOptions # {}
       /\ draftOptions \subseteq availableMajorModifiers
  /\ availableMajorModifiers = {} => draftStage # "major"

(* with every major modifier drafted, the draft of a wave on which a major
   offer is due has ended with the upgrade pick alone *)
C10_Witness ==
  /\ op = "draftClick" /\ ~drafting /\ ~draftActive
  /\ completedWaves > 0 /\ completedWaves % MajorEvery = 0
  /\ availableMajorModifiers = {}
  /\ \A id \in MajorIds : playerModifierCounts[id] = 1

(* C11: a major-modifier draft is on screen only within the draft of a
   wave completion at which completedWaves % 3 = 0 and the major pool is
   not empty; after any other wave completion the draft shows no major
   offer. *)
C11_MajorOnlyEveryThirdWave ==
  draftStage = "major" =>
    /\ drafting /\ draftActive
    /\ completedWaves > 0 /\ completedWaves % MajorEvery = 0
    /\ availableMajorModifiers # {}

(* the upgrade pick after the third wave has brought up the major offer *)
C11_Witness ==
  /\ op = "draftClick" /\ draftActive /\ draftStage = "major"
  /\ completedWaves = MajorEvery

(* C12, as stated: every template used for the blueprint of wave N is
   unlocked for wave N (minWave <= N) and used no more often than its
   per-wave cap, whichever filter of selectTemplate it came from. *)
C12_TemplatesUnlockedAndCapped ==
  gen.built =>
    \A id \in TemplateIds :
      /\ gen.usedCounts[id] <= Template(id).maxPerWave
      /\ gen.usedCounts[id] > 0 => Template(id).minWave <= gen.waveNumber

(* C13: every blueprint pickWave returns has at least one spawn group:
   the groups of the chosen templates, or the single default zig-zag
   group when no template produced a group. *)
C13_BlueprintNeverEmpty ==
  gen.built =>
    /\ Len(gen.enemies) >= 1
    /\ gen.chosenIds = << >> => gen.enemies = DefaultGroup
    /\ gen.chosenIds # << >> =>
         \E split \in [1..Len(gen.chosenIds) -> 1..3] :
           /\ \A k \in DOMAIN split :
                \E c \in TemplateGenerate(gen.chosenIds[k]) : Len(c) = split[k]
           /\ Len(gen.enemies) = SumTo(split, Len(split))

(* a blueprint built for the last wave generated, from as many templates
   as the wave's target *)
C13_Witness ==
  /\ gen.built /\ gen.waveNumber = MaxGenWaves
  /\ Len(gen.chosenIds) = gen.targetGroups
  /\ Len(gen.enemies) > Len(gen.chosenIds)

(* C14, as stated: a group never spawns more than its scheduled count, and
   consecutive members of a group are spawned at least one cadence
   interval of simulated time apart, whatever the tick durations are. *)
C14_CadenceKept ==
  /\ sched.spawned <= sched.count
  /\ \A gap \in sched.gaps : gap >= sched.cadence

(* C15: a live adversary with shield > 0 hit for amount d: if d <= shield,
   the shield decreases by d and hp is unchanged; if d > shield, the
   shield becomes 0 and hp decreases by exactly d - shield in that hit. *)
C15_ShieldBeforeHp ==
  (foe.call[1] = "takeDamage" /\ foe.prev.alive /\ foe.prev.shield > 0) =>
    LET d == foe.call[2] IN
    IF d <= foe.prev.shield
    THEN foe.e.shield = foe.prev.shield - d /\ foe.e.hp = foe.prev.hp
    ELSE foe.e.shield = 0 /\ foe.e.hp = foe.prev.hp - (d - foe.prev.shield)

(* a hit larger than the shield has broken it and carried into hp *)
C15_Witness ==
  /\ foe.call[1] = "takeDamage" /\ foe.prev.alive
  /\ foe.prev.shield > 0 /\ foe.call[2] > foe.prev.shield
  /\ foe.e.shield = 0 /\ foe.e.hp < foe.prev.hp /\ foe.e.alive

(* C16: after applySlow the slow timer is the maximum of the timer before
   and the duration, the slow factor the minimum of the factor before and
   the factor given, so a weaker slow never shortens or weakens the one in
   effect; two slows give the same result in either order, on a fresh
   adversary the maximum of the durations and the minimum of the factors;
   applyKnockback never lowers the knockback. *)
C16_SlowMaxWins ==
  /\ foe.call[1] = "applySlow" =>
       /\ foe.e.slowTimer = Max(foe.prev.slowTimer, foe.call[2])
       /\ foe.e.slowFactor = Min(foe.prev.slowFactor, foe.call[3])
       /\ foe.e.slowTimer >= foe.prev.slowTimer
       /\ foe.e.slowFactor <= foe.prev.slowFactor
       /\ \A other \in Slows :
            /\ applySlow(foe.e, other[1], other[2])
                 = applySlow(applySlow(foe.prev, other[1], other[2]),
                             foe.call[2], foe.call[3])
            /\ foe.prev.slowTimer = 0 /\ foe.prev.slowFactor = 1000 =>
                 /\ applySlow(foe.e, other[1], other[2]).slowTimer
                      = Max(foe.call[2], other[1])
                 /\ applySlow(foe.e, other[1], other[2]).slowFactor
                      = Min(foe.call[3], other[2])
  /\ foe.call[1] = "applyKnockback" =>
       foe.e.knockback = Max(foe.prev.knockback, foe.call[2])

(* the slow (0.5 s, 0.8) applied to an adversary under the slow
   (1.0 s, 0.6) has left duration 1.0 s and factor 0.6 *)
C16_Witness ==
  /\ foe.call = << "applySlow", 50, 800 >>
  /\ foe.prev.slowTimer = 100 /\ foe.prev.slowFactor = 600
  /\ foe.e.slowTimer = 100 /\ foe.e.slowFactor = 600

(* C17: for every wave number from 1 to 200 and every draw of mutations
   the scaling has hpMultiplier in [1, 5], speedMultiplier in [0.5, 3],
   countMultiplier in [1, 3.5], cadenceMultiplier in [0.35, 1] and
   hpBonus >= 0. *)
C17_ScalingClamped ==
  tune.built =>
    /\ tune.scaling.hpMultiplier \in Unit..(5 * Unit)
    /\ tune.scaling.speedMultiplier \in (Unit \div 2)..(3 * Unit)
    /\ tune.scaling.countMultiplier \in Unit..((7 * Unit) \div 2)
    /\ tune.scaling.cadenceMultiplier \in ((35 * Unit) \div 100)..Unit
    /\ tune.scaling.hpBonus >= 0

(* the tuning of the last wave, whose mutations took hp, count and cadence
   out of their bands before the clamps *)
C17_Witness ==
  /\ tune.built /\ tune.waveNumber = MaxTuningWave
  /\ tune.raw.hpMultiplier > 5 * Unit /\ tune.scaling.hpMultiplier = 5 * Unit
  /\ tune.raw.countMultiplier > (7 * Unit) \div 2
  /\ tune.raw.cadenceMultiplier < (35 * Unit) \div 100
  /\ tune.scaling.cadenceMultiplier = (35 * Unit) \div 100
  /\ tune.scaling.hpBonus > 0

(* C18, as stated: for every group, level and difficulty the scheduled
   count is at least the blueprint count and at least the guaranteed count
   (blueprint count + floor(level / 4)), and the hp of a spawned adversary
   is at least the blueprint hp + floor(level / 3). *)
C18_NeverEasierThanBlueprint ==
  /\ tune.group.scaled =>
       /\ tune.group.count >= tune.group.baseCount
       /\ tune.group.count >= tune.group.baseCount + tune.scaling.level \div 4
  /\ tune.group.spawned =>
       tune.group.hp >= tune.group.baseHp + tune.scaling.level \div 3

(* C18, amended: the scheduled count is at least the blueprint count and
   at least the guaranteed count capped at four times the blueprint count;
   the hp of a spawned adversary is at least the floor blueprint hp +
   floor(level / 3) scaled by the difficulty's enemy hp multiplier and
   rounded, hence at least the floor itself unless the multiplier is
   below 1. *)
C18_FloorsWithinCapAndDifficulty ==
  /\ tune.group.scaled =>
       /\ tune.group.count >= tune.group.baseCount
       /\ tune.group.count >=
            Min(tune.group.baseCount + tune.scaling.level \div 4,
                4 * tune.group.baseCount)
  /\ tune.group.spawned =>
       LET floorHp == tune.group.baseHp + tune.scaling.level \div 3 IN
       /\ tune.group.hp >= Max(1, Round(floorHp * tune.group.difficulty, 100))
       /\ tune.group.difficulty >= 100 => tune.group.hp >= floorHp

(* a group of one at a level whose guaranteed count is above the cap, and
   a member of it spawned on the easiest difficulty below the hp floor *)
C18_Witness ==
  /\ tune.group.spawned
  /\ tune.group.baseCount = 1 /\ tune.group.count = 4
  /\ 1 + tune.scaling.level \div 4 > 4
  /\ tune.group.difficulty < 100
  /\ tune.group.hp < tune.group.baseHp + tune.scaling.level \div 3

(* C19: each kill adds exactly round((100 + 15 maxHp) (1 + 0.1
   floor(comboHeat / 5))) to the score, with comboHeat as it stands when
   the adversary dies, before the kill's own increment of 1; an adversary
   with maxHp 5 killed at heat 12 adds 210. *)
C19_KillScore ==
  op = "kill" =>
    /\ combo.kill.delta =
         Round((100 + 15 * combo.kill.maxHp)
                 * (10 + (combo.kill.heat \div 100) \div 5), 10)
    /\ comboHeat = combo.kill.heat + 100
    /\ \A maxHp \in 1..MaxKillHp :
         onEnemyKilled(State, maxHp).score - score =
           Round((100 + 15 * maxHp) * (10 + (comboHeat \div 100) \div 5), 10)
    /\ (combo.kill.maxHp = 5 /\ combo.kill.heat = 1200) =>
         combo.kill.delta = 210

(* the kill of an adversary with maxHp 5 at heat 12 *)
C19_Witness ==
  /\ op = "kill" /\ combo.kill.maxHp = 5 /\ combo.kill.heat = 1200
  /\ combo.kill.delta = 210 /\ comboHeat = 1300

(* C20, as stated: combo heat does not decay while the simulated time
   since the last kill is at most 2 s; after that it falls at 2 per
   simulated second and never below 0, so that 3 s without kills starting
   from heat 10 leaves heat 8. *)
C20_DecayAfterGrace ==
  comboHeat = Max(0, combo.heatAtKill - 2 * Max(0, combo.quiet - ComboGrace))

(* the examples of C20, amended: heat is as the last kill left it while
   at most 2 s of ticks have passed; 3 s of 0.5 s ticks from heat 10
   leave 8, 3 s of 0.75 s ticks leave 7 *)
C20_Examples ==
  /\ comboHeat >= 0
  /\ combo.quiet <= ComboGrace => comboHeat = combo.heatAtKill
  /\ (combo.heatAtKill = 1000 /\ combo.quiet = 300 /\ combo.dts = { 50 }) =>
       comboHeat = 800
  /\ (combo.heatAtKill = 1000 /\ combo.quiet = 300 /\ combo.dts = { 75 }) =>
       comboHeat = 700

(* C20, amended: a tick adds its duration to the time since the last
   kill; heat is unchanged by a tick that ends at most 2 s after the last
   kill, and falls by 2 per second for the whole duration of every tick
   that ends later, never below 0, so the heat left after 3 s depends on
   the tick durations; every kill restarts the 2 s grace period. *)
C20_DecayByWholeTicks ==
  /\ []C20_Examples
  /\ [][ /\ op' = "decay" =>
             \E dt \in ComboDts :
               /\ combo'.quiet = combo.quiet + dt
               /\ comboHeat' = IF comboTimer + dt > ComboGrace
                                THEN Max(0, comboHeat - 2 * dt)
                                ELSE comboHeat
         /\ op' = "kill" => comboTimer' = 0 /\ combo'.quiet = 0 ]_vars

(* 3 s of 0.75 s ticks after the kill that raised heat to 10 have left
   heat 7 *)
C20_Witness ==
  /\ op = "decay" /\ combo.heatAtKill = 1000
  /\ combo.quiet = 300 /\ combo.dts = { 75 } /\ comboHeat = 700

(* C21: the special charge always stays within 0..100; a request of the
   special has an effect only when the charge is at its maximum and the run
   is live (running, not paused, not drafting, lives > 0), and then it
   resets the charge to 0 and applies knockback and slow to every live
   adversary; any other request changes nothing. *)
C21_SpecialOnlyAtFullCharge ==
  /\ [](nova.charge \in 0..novaChargeMax)
  /\ [][ op' = "special" =>
           IF nova.charge = novaChargeMax /\ running /\ ~paused /\ ~drafting
              /\ lives > 0
           THEN /\ nova'.charge = 0
                /\ Len(nova'.foes) = Len(nova.foes)
                /\ \A i \in DOMAIN nova.foes :
                     nova.foes[i].alive =>
                       /\ nova'.foes[i].knockback >= 620
                       /\ nova'.foes[i].slowTimer >= 380
                       /\ nova'.foes[i].slowFactor <= 400
                       /\ nova'.foes[i].hp = nova.foes[i].hp
           ELSE nova' = nova ]_vars

(* the special has just been fired at the two adversaries in the field *)
C21_Witness ==
  /\ op = "special" /\ nova.charge = 0 /\ Len(nova.foes) = 2
  /\ \A i \in 1..2 : nova.foes[i].knockback = 620 /\ nova.foes[i].slowTimer = 380
  /\ running /\ ~paused /\ score > 0

(* C22: in one chain-lightning tick each adversary takes chain damage at
   most once, however many pairs of live projectiles pass within range of
   it, and chain lightning deals damage only while at least two live
   projectiles exist: an adversary is hit exactly when the tick fires, it
   was alive and some pair of live projectiles is in range of it. *)
C22_ChainDamageOncePerTick ==
  \A k \in DOMAIN storm.foes :
    /\ storm.hits[k] <= 1
    /\ storm.hits[k] = 1 <=>
         /\ storm.fired
         /\ Cardinality(AliveOrbs(storm)) >= 2
         /\ storm.before[k].alive
         /\ \E i, j \in AliveOrbs(storm) : << i, j, k >> \in storm.near
    /\ storm.foes[k] = IF storm.hits[k] = 1
                       THEN takeDamage(storm.before[k], ChainDamage(storm))
                       ELSE storm.before[k]

(* an adversary in range of all three pairs of three live projectiles has
   been hit by the tick, and has survived it *)
C22_Witness ==
  /\ storm.fired /\ AliveOrbs(storm) = 1..3
  /\ \E k \in DOMAIN storm.foes :
       /\ { << 1, 2, k >>, << 1, 3, k >>, << 2, 3, k >> } \subseteq storm.near
       /\ storm.hits[k] = 1 /\ storm.foes[k].alive

(* C23: every wall bounce of a projectile increments that projectile's
   bounceCount by one and, when the wall-hit damage bonus modifier is
   active, arms a bonus that multiplies the damage of exactly the next
   collision of that projectile and is cleared by it. *)
C23_WallBounceCountsAndArms ==
  \A i \in DOMAIN shot.orbs :
    LET o == shot.orbs[i] IN
    /\ o.bounceCount = o.walls
    /\ o.armed <=> o.pendingWallDamageBonus > 0
    /\ computeOrbDamage(o, shot.m, 0, FALSE).orb.pendingWallDamageBonus = 0
    /\ computeOrbDamage(o, shot.m, 0, FALSE).damage =
         Scaled(computeOrbDamage([o EXCEPT !.pendingWallDamageBonus = 0],
                                 shot.m, 0, FALSE).damage,
                IF o.armed THEN 1000 + shot.m.wallHitDamageBonusPercent ELSE 1000)

(* C24: a projectile's alive flag goes from true to false at most once and
   never back to true (a projectile that has died is never in Game.orbs
   again, and no two projectiles share an id); a split marks the original
   dead and adds exactly two new projectiles; and no dead projectile
   remains in Game.orbs after the end of a tick. *)
C24_DeadProjectilesAreGone ==
  /\ \A i \in DOMAIN shot.orbs :
       /\ shot.orbs[i].alive
       /\ shot.orbs[i].id \notin shot.gone
       /\ shot.orbs[i].id < shot.nextId
       /\ \A j \in DOMAIN shot.orbs : shot.orbs[i].id = shot.orbs[j].id => i = j
  /\ \A id \in shot.gone : id < shot.nextId
  /\ shot.grown = 2 * Len(shot.splits)
  /\ \A n \in DOMAIN shot.splits :
       /\ shot.splits[n].of \in shot.gone
       /\ Cardinality(shot.splits[n].into) = 2
       /\ shot.splits[n].of \notin shot.splits[n].into
       /\ \A k \in DOMAIN shot.splits :
            k # n => /\ shot.splits[k].into \cap shot.splits[n].into = {}
                     /\ shot.splits[k].of # shot.splits[n].of

(* a projectile has split, one of its two clones has split again in the
   same frame, and the other clone is still in the field *)
C24_Witness ==
  /\ Len(shot.splits) = 2
  /\ shot.splits[2].of \in shot.splits[1].into
  /\ \E i \in DOMAIN shot.orbs : shot.orbs[i].id \in shot.splits[1].into
  /\ Len(shot.orbs) >= 3

(* C25: an adversary's hp never increases except through the heal of the
   aura-support variant, never exceeds its maxHp, and is never negative
   (it is clamped at 0 when the adversary dies). *)
C25_HpWithinBounds ==
  Spawned =>
    /\ foe.e.hp <= foe.e.maxHp
    /\ foe.e.hp >= 0
    /\ (foe.call[1] # "new" /\ foe.e.hp > foe.prev.hp) => foe.call[1] = "aegisPulse"

(* C26, as stated: the run's ModifierState is changed only by applying a
   drafted modifier (and by the run reset): a simulation tick reads it but
   leaves every one of its fields unchanged. *)
C26_TickLeavesModifiersUnchanged ==
  [][ modifiers' # modifiers => op' \in ResetOps \cup { "draftClick" } ]_vars

(* C26, as the program has it: a tick leaves every field of the
   ModifierState unchanged except chainLightning.cooldown, which the tick
   lowers by its duration, or sets back to the interval once it is used up,
   while more than one projectile is alive; everything else is changed only
   by applying a drafted modifier and by the run reset. *)
C26_TickChangesOnlyChainCooldown ==
  [][ /\ modifiers' # modifiers => op' \in ResetOps \cup { "draftClick", "tick" }
      /\ op' = "tick" =>
           modifiers' =
             IF modifiers.chainLightning # << >> /\ orbs' > 1
             THEN [modifiers EXCEPT !.chainLightning[1].cooldown =
                     IF @ - TickDt <= 0
                     THEN modifiers.chainLightning[1].interval ELSE @ - TickDt]
             ELSE modifiers ]_vars

(* a tick with two projectiles alive has just set the cooldown from 0 back
   to the interval *)
C26_Witness ==
  /\ op = "tick" /\ orbs = 2 /\ modifiers.chainLightning # << >>
  /\ modifiers.chainLightning[1].cooldown = modifiers.chainLightning[1].interval
  /\ modifiers.chainLightning[1].cooldown > 0

(* C27, as stated: applying any drafted choice, whichever modifier it is,
   raises the recorded pick count of that modifier id by exactly one and
   leaves the pick counts of all other ids unchanged.  The choice applied
   by a click is the one the click leaves in modifiers.lastPicked. *)
C27_EveryPickCounted ==
  [][ op' = "draftClick" =>
        playerModifierCounts' =
          [playerModifierCounts EXCEPT ![modifiers'.lastPicked] = @ + 1] ]_vars

(* C27, as the program has it: applying a drafted choice other than
   Restore Heart raises the pick count of its id by exactly one and leaves
   the other pick counts unchanged; applying Restore Heart leaves every
   pick count unchanged. *)
C27_PickCountedUnlessRestoreHeart ==
  [][ op' = "draftClick" =>
        playerModifierCounts' =
          IF modifiers'.lastPicked = "restoreHeart" THEN playerModifierCounts
          ELSE [playerModifierCounts EXCEPT ![modifiers'.lastPicked] = @ + 1] ]_vars

(* Restore Heart has just been applied in the second draft of a run, after
   a counted pick in the first *)
C27_Witness ==
  /\ op = "draftClick" /\ modifiers.lastPicked = "restoreHeart"
  /\ playerModifierCounts["restoreHeart"] = 0
  /\ \E id \in UpgradeIds : playerModifierCounts[id] = 1
  /\ completedWaves = 2

(* the upgrades whose availability predicate holds in the current state *)
AvailableUpgrades == { id \in UpgradeIds : ModifierAvailable(id, modifiers, lives) }

(* C28: an upgrade draft offers at most 3 pairwise-distinct options (as
   many different ones as there are slots and available upgrades), each of
   whose availability predicate holds at the time of the offer; in
   particular the heal modifier is offered only while lives < maxLives, so
   applying it never raises lives above maxLives. *)
C28_UpgradeOfferAvailableAndDistinct ==
  /\ [](lives <= maxLives)
  /\ []((draftActive /\ draftStage = "upgrade") =>
          /\ draftOptions \subseteq AvailableUpgrades
          /\ Cardinality(draftOptions) = Min(DraftSlots, Cardinality(AvailableUpgrades))
          /\ ("restoreHeart" \in draftOptions => lives < maxLives))
  /\ [][ (op' = "draftClick" /\ modifiers'.lastPicked = "restoreHeart"
          /\ draftStage = "upgrade") =>
            lives' = lives + 1 /\ lives' <= maxLives ]_vars

(* Restore Heart is on offer after a breach, next to two other upgrades *)
C28_Witness ==
  /\ draftActive /\ draftStage = "upgrade"
  /\ "restoreHeart" \in draftOptions /\ Cardinality(draftOptions) = 3
  /\ lives = maxLives - 1

(* C29: applying a slow, explosion or chain-lightning effect while one of
   the same kind is active composes with it: slow keeps the longer duration
   and the smaller factor, explosion the larger radius and the larger
   damage, chain lightning the larger range, the sum of the damages and the
   shorter interval (and its running cooldown); the first effect of a kind
   is taken as given, and nothing else of the ModifierState changes. *)
C29_StackingComposes ==
  LET a == stack.args  p == stack.prev  m == stack.m IN
  /\ stack.kind = "slow" =>
       /\ Len(m.slowEffect) = 1
       /\ [m EXCEPT !.slowEffect = p.slowEffect] = p
       /\ IF p.slowEffect = << >>
          THEN m.slowEffect[1] = [duration |-> a[1], factor |-> a[2]]
          ELSE LET old == p.slowEffect[1]  new == m.slowEffect[1] IN
               /\ new.duration >= old.duration /\ new.duration >= a[1]
               /\ new.duration \in {old.duration, a[1]}
               /\ new.factor <= old.factor /\ new.factor <= a[2]
               /\ new.factor \in {old.factor, a[2]}
  /\ stack.kind = "explosion" =>
       /\ Len(m.explosion) = 1
       /\ [m EXCEPT !.explosion = p.explosion] = p
       /\ IF p.explosion = << >>
          THEN m.explosion[1] = [radius |-> a[1], damage |-> a[2]]
          ELSE LET old == p.explosion[1]  new == m.explosion[1] IN
               /\ new.radius >= old.radius /\ new.radius >= a[1]
               /\ new.radius \in {old.radius, a[1]}
               /\ new.damage >= old.damage /\ new.damage >= a[2]
               /\ new.damage \in {old.damage, a[2]}
  /\ stack.kind = "chain" =>
       /\ Len(m.chainLightning) = 1
       /\ [m EXCEPT !.chainLightning = p.chainLightning] = p
       /\ IF p.chainLightning = << >>
          THEN m.chainLightning[1] =
                 [range |-> a[1], damage |-> a[2], interval |-> a[3], cooldown |-> 0]
          ELSE LET old == p.chainLightning[1]  new == m.chainLightning[1] IN
               /\ new.range >= old.range /\ new.range >= a[1]
               /\ new.range \in {old.range, a[1]}
               /\ new.damage = old.damage + a[2]
               /\ new.interval <= old.interval /\ new.interval <= a[3]
               /\ new.interval \in {old.interval, a[3]}
               /\ new.cooldown = old.cooldown

(* a weaker, slower chain effect lands on a stronger one whose cooldown is
   running, with a slow and nothing else in place *)
C29_Witness ==
  /\ stack.kind = "chain" /\ stack.prev.chainLightning # << >>
  /\ stack.prev.chainLightning[1].cooldown > 0
  /\ stack.args[1] < stack.prev.chainLightning[1].range
  /\ stack.args[3] > stack.prev.chainLightning[1].interval
  /\ stack.m.chainLightning[1].damage = stack.prev.chainLightning[1].damage + stack.args[2]
  /\ stack.n = MaxStacks

(* C30: when a draft or a manual pause ends, the time reference is
   rebased: the frame after it advances the simulation by no more than the
   time elapsed since the simulation went on again, never by the time the
   pause lasted, and every frame advances it by the time since the time
   reference. *)
C30_ResumeRebasesTime ==
  [][ op' = "tick" =>
        /\ clock'.delta = clock.now - clock.lastTime
        /\ clock'.delta >= 0
        /\ clock'.delta <= clock.now - clock.resumedAt
        /\ clock'.lastTime = clock.now ]_vars

(* the first frame after a draft that stayed open for two frames' time *)
C30_Witness ==
  /\ op = "tick" /\ clock.kind = "draftClick"
  /\ clock.resumedAt - clock.pausedAt >= 2
  /\ clock.now = clock.resumedAt + 1
  /\ clock.delta = 1

(* C31: for a 720-unit-wide field, lane k (1 <= k <= 6) maps to
   x = 120 + 96 * (k - 1): lane 1 maps to x = 120, lane 6 to x = 600, and
   the mapping is strictly increasing in the lane index. *)
C31_LaneMapping ==
  (arena.width = 720 /\ arena.lane > 0) =>
    /\ arena.x = (120 + 96 * (arena.lane - 1)) * 1000
    /\ arena.lane = 1 => arena.x = 120 * 1000
    /\ arena.lane = 6 => arena.x = 600 * 1000
    /\ \A k \in 1..arena.lane :
         k < arena.lane => laneToWorld(arena.width, k) < arena.x

(* lane 6 of the 720-unit field has been mapped *)
C31_Witness == arena.width = 720 /\ arena.lane = 6 /\ arena.x = 600000

(* C32: in every state between operations, drafting and pauseLocked are
   equal and drafting implies paused: no operation leaves the simulation
   unpaused while a draft is outstanding. *)
C32_DraftingLocksAndPauses ==
  /\ drafting = pauseLocked
  /\ drafting => paused

(* a draft is outstanding while the GameOver timeout is pending *)
C32_Witness ==
  drafting /\ pauseLocked /\ paused /\ draftActive /\ resetTimers > 0

(* C33: each GameOver schedules exactly one delayed reset: a timeout is
   scheduled only by the step in which lives reach 0 from above, and by
   that step only once, so that no breach in the same tick or while lives
   are still 0 schedules a second one. *)
C33_OneResetPerGameOver ==
  [][ resetTimers' > resetTimers =>
        /\ lives > 0 /\ lives' = 0
        /\ resetTimers' = resetTimers + 1 ]_vars

(* C34: after every wave completion with lives > 0 an upgrade draft is
   presented first; on a major wave the major draft is presented only by
   the step that applies the upgrade choice; and, short of a reset, the
   simulation resumes only with the step that applies the last choice of
   that wave: the upgrade choice if no major offer is due, else the major
   choice. *)
C34_UpgradeThenMajorThenResume ==
  [][ LET applied ==
            \E id \in draftOptions :
              /\ modifiers'.lastPicked = id
              /\ IF id = "restoreHeart" THEN lives' = lives + 1
                 ELSE playerModifierCounts' =
                        [playerModifierCounts EXCEPT ![id] = @ + 1]
          majorDue ==
            availableMajorModifiers # {} /\ completedWaves % MajorEvery = 0
      IN
      /\ (completedWaves' = completedWaves + 1 /\ lives' > 0) =>
           /\ drafting' /\ paused' /\ draftActive'
           /\ draftStage' = "upgrade"
           /\ draftOptions' # {} /\ draftOptions' \subseteq UpgradeIds
      /\ (draftStage' = "major" /\ draftStage # "major") =>
           /\ op' = "draftClick" /\ draftStage = "upgrade" /\ applied
           /\ majorDue /\ drafting' /\ paused'
           /\ draftOptions' \subseteq MajorIds
      /\ (drafting /\ ~drafting') =>
           \/ op' \in ResetOps
           \/ /\ op' = "draftClick" /\ applied /\ ~draftActive'
              /\ draftStage = "major" \/ ~majorDue
      /\ (paused /\ drafting /\ ~paused') => ~drafting' ]_vars

(* the simulation has resumed after the upgrade and the major choice of
   the third wave *)
C34_Witness ==
  /\ op = "draftClick" /\ running /\ ~paused /\ ~drafting
  /\ completedWaves = MajorEvery
  /\ modifiers.lastPicked \in MajorIds
  /\ \E id \in UpgradeIds : playerModifierCounts[id] > 0 \/ lives = maxLives

(* C35: clones created by a split during a collision pass deal no damage
   in that same pass, so that one launched projectile with split-on-impact
   yields exactly two live projectiles at the end of the tick of its first
   hit. *)
C35_ClonesWaitForNextTick ==
  LET launched == { i \in DOMAIN clash.orbs : clash.orbs[i].gen = 0 } IN
  /\ clash.phase \in { "collided", "filtered" } =>
       \A i \in DOMAIN clash.orbs :
         clash.orbs[i].gen > 0 => clash.orbs[i].hits = 0
  /\ ( /\ clash.phase = "filtered"
       /\ Cardinality(launched) = 1
       /\ \A i \in launched :
            clash.orbs[i].splitOnImpact /\ clash.orbs[i].hits > 0 )
       => clash.left = 2

(* what is left to do for handleCollisions: the hp and shield of the live
   adversaries and of the children they can still spawn, weighted above any
   number of loop turns the lists in the model can hold, plus the turns left
   at the present length of the lists *)
ClashRank ==
  LET st == clash
      weight == (MaxClashList + 3) * (MaxClashList + 3)
      due == [k \in DOMAIN st.foes |->
                IF ~st.foes[k].e.alive THEN 0
                ELSE st.foes[k].e.hp + st.foes[k].e.shield
                       + (IF st.foes[k].kind = "SplitterGloob"
                          THEN 2 * SplitterlingHp + 1 ELSE 0)]
      turns == (Len(st.orbs) - st.i + 1) * (Len(st.foes) + 2) - st.j + 1
  IN IF st.phase # "moved" THEN 0
     ELSE 1 + weight * SumTo(due, Len(st.foes)) + (IF turns > 0 THEN turns ELSE 0)

(* C36: the collision pass of a tick always terminates, although
   split-on-impact appends clones to the projectile list and adversary
   deaths append children to the adversary list while the lists are being
   iterated: every turn of the loop lowers a rank that is never negative,
   and the lists stay within the room the model gives them. *)
C36_CollisionPassTerminates ==
  /\ [](Len(clash.orbs) < MaxClashList /\ Len(clash.foes) < MaxClashList)
  /\ [](ClashRank >= 0)
  /\ [][ clash.phase = "moved" => ClashRank' < ClashRank ]_vars

(* the pass has ended after clones of clones were made and a SplitterGloob
   killed by an explosion has spawned its children *)
C36_Witness ==
  /\ clash.phase = "collided" /\ clash.explosion
  /\ \E i \in DOMAIN clash.orbs : clash.orbs[i].gen >= 2
  /\ \E k \in DOMAIN clash.foes : clash.foes[k].kind = "Splitterling"

(* C37: every adversary has at most one terminal event: it is killed once
   or breaches once, never both and never twice, also when a hit, an
   explosion and chain lightning reach it in the same tick; a dead
   adversary has had exactly one, a live one none. *)
C37_OneTerminalEvent ==
  \A k \in DOMAIN clash.foes :
    LET f == clash.foes[k] IN
    /\ f.kills + f.breaches <= 1
    /\ f.e.alive <=> (f.kills + f.breaches = 0)

(* in one frame an adversary has breached, and another has been reached
   by a hit, by the explosion of that hit and by chain lightning, which
   has killed it *)
C37_Witness ==
  /\ clash.phase = "filtered" /\ clash.explosion /\ clash.chain
  /\ \E k \in DOMAIN clash.foes : clash.foes[k].breaches = 1
  /\ \E k \in clash.affected :
       /\ clash.foes[k].kills = 1
       /\ clash.foes[k].e.hp =
            clash.foes[k].e.maxHp - OrbHitDamage - BlastDamage - ChainHitDamage

(* C38: a drag interrupted by a pause, draft or GameOver does not leave
   the launcher stuck: with every pointer released, the simulation running
   and the launch cooldown elapsed, no drag is in progress and a
   pointer-down of any pointer starts a new drag of that pointer. *)
C38_LauncherNeverStuck ==
  ( /\ hand.down = {} /\ running /\ ~paused /\ ~drafting
    /\ hand.launchCooldown = 0 ) =>
      /\ ~hand.dragging
      /\ \A id \in 1..MaxPointerId :
           /\ pointerDown(State, hand, id).dragging
           /\ pointerDown(State, hand, id).pointerId = id

(* C39: the pulse of the AegisSentinel never lowers a neighbour's shield
   or hp: a live adversary in reach has, after the pulse, a shield and an
   hp at least as large as before it. *)
C39_PulseNeverLowers ==
  (foe.call = << "aegisPulse" >> /\ foe.prev.alive) =>
    /\ foe.e.shield >= foe.prev.shield
    /\ foe.e.hp >= foe.prev.hp

(* C40: every spawn group of every blueprint the generator returns, for
   any wave number and any random outcome, has count >= 1, hp >= 1 and
   cadence > 0. *)
C40_GroupsWellFormed ==
  gen.built =>
    \A k \in DOMAIN gen.enemies :
      \A config \in GroupConfigs(gen, k) :
        config.count >= 1 /\ config.hp >= 1 /\ config.cadence > 0

====
